---- MODULE Spec2Model ----
(***************************************************************************)
(* Dev-Memory achievement pipeline: the achievement store (pg_store.py),   *)
(* the summarization engine (ai_summarizer.summarize_repo_async) and the   *)
(* orchestrator (achievement_window_service.generate_achievement_window).  *)
(*                                                                         *)
(* Text is a sequence of one-character strings, so that strip, lower and   *)
(* startswith are computed as Python computes them.  A backend response is *)
(* the sequence of its lines.                                              *)
(***************************************************************************)
EXTENDS Integers, Sequences, FiniteSets, TLC

(* ------------------------------ bounds -------------------------------- *)
\* commits of one repository in one call
MaxCommits == 2
\* lines of one backend response
MaxLines == 2
\* largest max_retries a caller passes
MaxRetriesArg == 1
\* direct calls of summarize_repo_async made one after the other
MaxCalls == 2
\* window requests made one after the other
MaxRequests == 1
\* commits collected for one window request, over all its repositories
MaxWindowCommits == 2
\* repositories collected for one window request
NumRepos == 2
\* largest integer LLM_MAX_CONCURRENCY is set to
MaxConcurrencyEnv == 1
\* latest minute a window starts at
MaxSinceMinute == 1
\* lines of the crontab before the first call
MaxCronLines == 3
\* install / remove calls on one crontab
MaxCronCalls == 3
\* largest max_retries of the call whose waits are followed
MaxBackoffRetries == 5

(* ------------------------------- text --------------------------------- *)
IsSpace(c) == c \in {" ", "\t", "\n"}

RECURSIVE LStrip(_)
LStrip(s) == IF s # <<>> /\ IsSpace(Head(s)) THEN LStrip(Tail(s)) ELSE s

RECURSIVE RStrip(_)
RStrip(s) ==
    IF s # <<>> /\ IsSpace(s[Len(s)]) THEN RStrip(SubSeq(s, 1, Len(s) - 1)) ELSE s

Strip(s) == RStrip(LStrip(s))

LowerChar(c) ==
    CASE c = "S" -> "s"
      [] c = "A" -> "a"
      [] c = "Y" -> "y"
      [] c = "F" -> "f"
      [] c = "I" -> "i"
      [] c = "X" -> "x"
      [] OTHER -> c

Lower(s) == [i \in 1..Len(s) |-> LowerChar(s[i])]

StartsWith(s, p) == Len(s) >= Len(p) /\ SubSeq(s, 1, Len(p)) = p

\* s[k:] of Python, k counted from 0
From(s, k) == IF k >= Len(s) THEN <<>> ELSE SubSeq(s, k + 1, Len(s))

\* s[:k] of Python
Upto(s, k) == IF k <= 0 THEN <<>> ELSE IF k >= Len(s) THEN s ELSE SubSeq(s, 1, k)

Max(a, b) == IF a >= b THEN a ELSE b
Min(a, b) == IF a <= b THEN a ELSE b

\* None and the empty string: every use in the code is `(b or "").strip()`
None == <<>>

(* ------------------------ _extract_bullets ---------------------------- *)
Dash == <<"-">>
DashSp == <<"-", " ">>
Marker == <<"-", " ", "s", "a", "y", "a">>
MarkerSp == <<"-", " ", "s", "a", "y", "a", " ">>
TightMarkerSp == <<"-", "s", "a", "y", "a", " ">>
SayaSp == <<"-", " ", "S", "a", "y", "a", " ">>

\* the marker spacing fix of one bullet line
NormaliseDash(b) ==
    LET s == Strip(b)
    IN  IF ~StartsWith(s, DashSp) /\ StartsWith(s, Dash)
        THEN DashSp \o LStrip(From(s, 1))
        ELSE s

\* the bullet one candidate line yields: <<bullet>>, or <<>> when discarded
BulletOf(b) ==
    LET s == NormaliseDash(b)
    IN  IF StartsWith(Lower(s), MarkerSp) THEN <<s>>
        ELSE IF StartsWith(Lower(s), TightMarkerSp) THEN <<SayaSp \o LStrip(From(s, 6))>>
        ELSE IF StartsWith(Lower(s), Marker) THEN <<SayaSp \o LStrip(From(s, 6))>>
        ELSE <<>>

RECURSIVE ConcatBullets(_)
ConcatBullets(ls) ==
    IF ls = <<>> THEN <<>> ELSE BulletOf(Head(ls)) \o ConcatBullets(Tail(ls))

IsCandidate(ln) == Strip(ln) # <<>> /\ StartsWith(LStrip(ln), Dash)

RECURSIVE Candidates(_)
Candidates(ls) ==
    IF ls = <<>> THEN <<>>
    ELSE IF IsCandidate(Head(ls)) THEN <<RStrip(Head(ls))>> \o Candidates(Tail(ls))
    ELSE Candidates(Tail(ls))

ExtractBullets(text) == ConcatBullets(Candidates(text))

(* ------------------------------ inputs -------------------------------- *)
\* the history of a repository, in the order git log reports it: hashes are
\* never empty and unique per repository
History == <<"h1", "h2", "h3">>
Hashes == {History[i] : i \in 1..Len(History)}

MsgFixA == <<"f", "i", "x", ":", " ", "a">>
MsgCi == <<"c", "i", ":", " ">>
Messages == {MsgFixA, MsgCi}

\* the files field is carried into the checksum; it does not vary here
RawFiles == <<"a.py">>

Commit(h, m) == [hash |-> h, message |-> m, files |-> RawFiles]

\* lines a backend may answer with
LineCanon == <<"-", " ", "S", "a", "y", "a", " ", "a">>
LineBare == <<" ", "-", "s", "a", "y", "a", " ">>
LineProse == <<"*", " ", "x">>
Lines == {LineCanon, LineBare, LineProse}

SeqsUpTo(S, n) == UNION {[1..k -> S] : k \in 0..n}

Position(h) == CHOOSE i \in 1..Len(History) : History[i] = h

\* commit lists of one repository: a window of the history of at most n commits,
\* in history order, any message each
CommitLists(n) ==
    {cs \in SeqsUpTo({Commit(h, m) : h \in {History[i] : i \in 1..Min(n, Len(History))},
                                       m \in Messages}, n) :
        \A i, j \in 1..Len(cs) : i < j => Position(cs[i].hash) < Position(cs[j].hash)}

AllCommitLists == CommitLists(MaxCommits)

Responses == SeqsUpTo(Lines, MaxLines)

(* -------------------------- _payload_checksum ------------------------- *)
PROMPT_VERSION == "1"
SYSTEM_PROMPT_VERSION == "1"

\* SHA-256 over the sorted JSON of the payload, taken as injective: the digest
\* is the payload itself
PayloadChecksum(repo, c) ==
    <<repo, c.hash, Strip(c.message), c.files, PROMPT_VERSION, SYSTEM_PROMPT_VERSION>>

(* --------------------------- prompt builder --------------------------- *)
\* a budget that leaves the floor of ten tokens per commit out
ComputeMaxMessageLenNoFloor(commitCount, tokenBudget) ==
    IF commitCount <= 0 THEN 120
    ELSE LET available == Max(0, tokenBudget - 400 - (commitCount * 40))
             perCommitTokens == available \div commitCount
         IN  Max(0, Min(220, perCommitTokens * 4))

ComputeMaxMessageLen(commitCount, tokenBudget) ==
    IF commitCount <= 0 THEN 120
    ELSE LET available == Max(0, tokenBudget - 400 - (commitCount * 40))
             perCommitTokens == Max(10, available \div commitCount)
         IN  Max(40, Min(220, perCommitTokens * 4))

TruncateCommitMessage(msg, maxLen) ==
    LET s == Strip(msg)
        cut == RStrip(Upto(s, maxLen))
    IN  IF maxLen <= 0 THEN <<>>
        ELSE IF Len(s) <= maxLen THEN s
        ELSE IF cut = <<>> THEN Upto(s, maxLen)
        ELSE cut

\* the commit list of the prompt; the instruction text around it is constant
BuildPrompt(repo, commits, maxLen) ==
    [repo |-> repo,
     listing |-> [i \in 1..Len(commits) |->
                    [idx |-> i, hash |-> commits[i].hash,
                     message |-> TruncateCommitMessage(commits[i].message, maxLen)]]]

DefaultTokenBudget == 6000

SummarizeRepoOnce(repo, commits, tokenBudget) ==
    BuildPrompt(repo, commits, ComputeMaxMessageLen(Len(commits), tokenBudget))

NoPrompt == [repo |-> "", listing |-> <<>>]

(* --------------------------- achievement store ------------------------ *)
\* rows of commit_achievements; the id of a row is its index, "" is 0
AchRow(c, cs, st, b) == [commit |-> c, checksum |-> cs, status |-> st, bullet |-> b]

\* an update that leaves the records that were already processed as they are
InvalidateOthersPending(ach, c, cs) ==
    [i \in 1..Len(ach) |->
        IF ach[i].commit = c /\ ach[i].checksum # cs /\ ach[i].status = "pending"
        THEN [ach[i] EXCEPT !.status = "invalidated"]
        ELSE ach[i]]

\* UPDATE ... SET processing_status = 'invalidated'
\*   WHERE commit_id = c AND payload_checksum <> cs
InvalidateOthers(ach, c, cs) ==
    [i \in 1..Len(ach) |->
        IF ach[i].commit = c /\ ach[i].checksum # cs
        THEN [ach[i] EXCEPT !.status = "invalidated"]
        ELSE ach[i]]

\* a lookup that sees the completed records only
AchievementGetCompleted(ach, c, cs) ==
    LET hit == {i \in 1..Len(ach) : /\ ach[i].commit = c
                                    /\ ach[i].checksum = cs
                                    /\ ach[i].status = "completed"}
    IN  IF hit = {} THEN 0 ELSE CHOOSE i \in hit : \A j \in hit : i <= j

\* SELECT ... WHERE commit_id = c AND payload_checksum = cs: the id, or 0
AchievementGet(ach, c, cs) ==
    LET hit == {i \in 1..Len(ach) : ach[i].commit = c /\ ach[i].checksum = cs}
    IN  IF hit = {} THEN 0 ELSE CHOOSE i \in hit : \A j \in hit : i <= j

\* INSERT ... ON CONFLICT (commit_id, payload_checksum) DO NOTHING
InsertPending(ach, c, cs) ==
    IF AchievementGet(ach, c, cs) # 0 THEN ach
    ELSE Append(ach, AchRow(c, cs, "pending", <<>>))

\* INSERT ... ON CONFLICT (repository_id, commit_hash) DO UPDATE
CommitUpsert(tbl, repo, c) ==
    {r \in tbl : ~(r.repo = repo /\ r.hash = c.hash)}
        \cup {[repo |-> repo, hash |-> c.hash, message |-> Strip(c.message)]}

\* a loop body that looks a completed record up by the commit alone
PrepareOneAnyChecksum(st, repo, c, cs, idx) ==
    LET cid == <<repo, c.hash>>
        tbl1 == CommitUpsert(st.tbl, repo, c)
        ach1 == InvalidateOthers(st.ach, cid, cs)
        done == {i \in 1..Len(st.ach) :
                    st.ach[i].commit = cid /\ st.ach[i].status = "completed"}
        ex == IF done = {} THEN 0 ELSE CHOOSE i \in done : \A j \in done : i <= j
    IN  IF c.hash = "" THEN st
        ELSE IF ex # 0
        THEN [tbl |-> tbl1, ach |-> ach1,
              cached |-> [st.cached EXCEPT ![idx] = Strip(st.ach[ex].bullet)],
              ids |-> [st.ids EXCEPT ![idx] = ex]]
        ELSE LET ach2 == InsertPending(ach1, cid, cs)
             IN  [tbl |-> tbl1, ach |-> ach2, cached |-> st.cached,
                  ids |-> [st.ids EXCEPT ![idx] = AchievementGet(ach2, cid, cs)]]

\* one commit of the loop of prepare_repo_commits
PrepareOne(st, repo, c, cs, idx) ==
    LET cid == <<repo, c.hash>>
        tbl1 == CommitUpsert(st.tbl, repo, c)
        ach1 == InvalidateOthers(st.ach, cid, cs)
        ex == AchievementGet(ach1, cid, cs)
    IN  IF c.hash = "" THEN st
        ELSE IF ex # 0 /\ ach1[ex].status = "completed"
        THEN [tbl |-> tbl1, ach |-> ach1,
              cached |-> [st.cached EXCEPT ![idx] = Strip(ach1[ex].bullet)],
              ids |-> [st.ids EXCEPT ![idx] = ex]]
        ELSE IF ex # 0
        THEN [tbl |-> tbl1, ach |-> ach1, cached |-> st.cached,
              ids |-> [st.ids EXCEPT ![idx] = ex]]
        ELSE LET ach2 == InsertPending(ach1, cid, cs)
             IN  [tbl |-> tbl1, ach |-> ach2, cached |-> st.cached,
                  ids |-> [st.ids EXCEPT ![idx] = AchievementGet(ach2, cid, cs)]]

RECURSIVE PrepareLoop(_, _, _, _, _)
PrepareLoop(st, repo, commits, sums, idx) ==
    IF idx > Len(commits) THEN st
    ELSE PrepareLoop(PrepareOne(st, repo, commits[idx], sums[idx], idx),
                     repo, commits, sums, idx + 1)

\* the whole transaction of prepare_repo_commits
PrepareRepoCommits(tbl, ach, repo, commits, sums) ==
    PrepareLoop([tbl |-> tbl, ach |-> ach,
                 cached |-> [i \in 1..Len(commits) |-> None],
                 ids |-> [i \in 1..Len(commits) |-> 0]],
                repo, commits, sums, 1)

\* the tables as one value: what a transaction reads and writes
Tables(names, tbl, ach) == [repositories |-> names, tbl |-> tbl, ach |-> ach]

\* the writes of prepare_repo_commits once the first k commits of the batch are done
PreparedUpTo(before, repo, commits, sums, k) ==
    LET st == PrepareRepoCommits(before.tbl, before.ach, repo,
                                 Upto(commits, k), Upto(sums, k))
    IN  Tables(before.repositories \cup {repo}, st.tbl, st.ach)

\* a connection in autocommit mode: every write stays
TransactionAutocommit(before, working, committed) == working

\* async with conn.transaction(): the writes are kept on commit and undone when an
\* exception leaves the block
Transaction(before, working, committed) == IF committed THEN working ELSE before

\* an update that selects by the commit of the record instead of by its id
MarkCompletedOfCommit(ach, aid, bullet) ==
    [i \in 1..Len(ach) |->
        IF aid \in 1..Len(ach) /\ ach[i].commit = ach[aid].commit
        THEN [ach[i] EXCEPT !.status = "completed", !.bullet = bullet]
        ELSE ach[i]]

\* UPDATE ... SET ai_bullet, processing_status = 'completed' WHERE id = aid
MarkCompleted(ach, aid, bullet) ==
    [i \in 1..Len(ach) |->
        IF i = aid THEN [ach[i] EXCEPT !.status = "completed", !.bullet = bullet]
        ELSE ach[i]]

\* UPDATE ... SET processing_status = 'failed' WHERE id = aid
MarkFailed(ach, aid) ==
    [i \in 1..Len(ach) |->
        IF i = aid THEN [ach[i] EXCEPT !.status = "failed"] ELSE ach[i]]

(* ------------------------- summarize_repo_async ----------------------- *)
Tasks == 1..NumRepos

NoErr == [text |-> "", bullets |-> 0, commits |-> 0]
TransportErr == [text |-> "transport error", bullets |-> 0, commits |-> 0]
CoverageErr(b, c) == [text |-> "invalid bullet coverage", bullets |-> b, commits |-> c]
DefaultErr == [text |-> "LLM request failed", bullets |-> 0, commits |-> 0]
\* str(e) of the exceptions a backend call ends with: a timeout has no text
BackendErrors == {NoErr, TransportErr}

\* RepoLLMResult
RepoLLMResult(ok, bullets, retries, error) ==
    [ok |-> ok, bullet_lines |-> bullets, retries |-> retries, error |-> error]
NoResult == RepoLLMResult(FALSE, <<>>, 0, NoErr)

VARIABLES
    repositories,     \* table repositories: the names
    commitsTbl,       \* table commits: rows keyed by (repository, hash)
    achievements,     \* table commit_achievements
    dbConfigured,     \* DATABASE_URL is set: get_store() returns a store
    eng,              \* per task: the locals of summarize_repo_async
    obs,              \* per task: what an observer of the call has seen
    running,          \* the task that holds the event loop without yielding, or 0
    inflight,         \* backend calls started and not yet ended
    background,       \* store updates a raising gather left running
    maxRetriesArg,    \* the max_retries the direct caller passes
    callNo,           \* direct calls made so far
    prev,             \* the direct call before the current one
    req,              \* the window request: the locals of generate_achievement_window
    task,             \* per repository of the request: its _process_repo task
    vw,               \* a call of validate_window: its arguments, the clock, its answer
    dc,               \* a call of send_message_or_file: its locals
    rd,               \* a run of run_daily.main: its locals, the state file, what it did
    cr,               \* the user's crontab and the last install / remove call on it
    ml,               \* a call of summarize_repo_once: its arguments, the length, the prompt
    sb,               \* a call of split_repo_block: its arguments, its chunks, its answer
    su                \* runs of run_daily and run_on_startup side by side: state file, daily JSON, each run

storeVars == <<repositories, commitsTbl, achievements>>

IdleEng ==
    [pc |-> "idle", caller |-> "none", repo_name |-> "", commits |-> <<>>,
     max_retries |-> 0, store |-> FALSE, payload_checksums |-> <<>>,
     cached_bullets |-> <<>>, achievement_ids |-> <<>>, retries |-> 0,
     last_err |-> NoErr, res |-> NoResult, writes |-> {}]

IdleObs ==
    [calls |-> 0, prompt |-> NoPrompt, prepare |-> "none", attempts |-> {},
     valid |-> <<>>, issued |-> {}, write_failed |-> FALSE,
     log |-> <<>>, sleeps |-> <<>>]

\* missing_indexes = [i for i, b in enumerate(cached_bullets) if not (b or "").strip()]
RECURSIVE MissingFrom(_, _)
MissingFrom(cached, i) ==
    IF i > Len(cached) THEN <<>>
    ELSE IF Strip(cached[i]) = <<>> THEN <<i>> \o MissingFrom(cached, i + 1)
    ELSE MissingFrom(cached, i + 1)

MissingIndexes(cached) == MissingFrom(cached, 1)

Select(s, idxs) == [k \in 1..Len(idxs) |-> s[idxs[k]]]

\* a batch that holds every commit, cached or not
CommitsForLlmAll(e) == e.commits

\* commits_for_llm and achievement_ids_for_llm
CommitsForLlm(e) ==
    LET missing == MissingIndexes(e.cached_bullets)
    IN  IF e.store /\ missing # <<>> THEN Select(e.commits, missing) ELSE e.commits

\* record ids taken by position in the input instead of by position in the batch
AchievementIdsForLlmAll(e) == e.achievement_ids

AchievementIdsForLlm(e) ==
    LET missing == MissingIndexes(e.cached_bullets)
    IN  IF e.store /\ missing # <<>> THEN Select(e.achievement_ids, missing)
        ELSE e.achievement_ids

\* a merge that puts the cached bullets first and the fresh ones after them
MergedCachedFirst(cached, missing, fresh) ==
    LET hits == SelectSeq(cached, LAMBDA b : Strip(b) # <<>>)
    IN  [k \in 1..Len(hits) |-> Strip(hits[k])] \o fresh

\* the merge of cached and fresh bullets
Merged(cached, missing, fresh) ==
    [i \in 1..Len(cached) |->
        IF \E k \in 1..Len(missing) : missing[k] = i /\ k <= Len(fresh)
        THEN fresh[CHOOSE k \in 1..Len(missing) : missing[k] = i]
        ELSE Strip(cached[i])]

\* a result that keeps the last valid bullets instead of the first
SuccessResultLastN(e, bullets) ==
    LET missing == MissingIndexes(e.cached_bullets)
        n == Len(CommitsForLlm(e))
        fresh == From(bullets, Len(bullets) - n)
    IN  IF e.store /\ missing # <<>>
        THEN RepoLLMResult(TRUE, Upto(Merged(e.cached_bullets, missing, fresh),
                                      Len(e.commits)), e.retries, NoErr)
        ELSE RepoLLMResult(TRUE, fresh, e.retries, NoErr)

\* what the call returns after a successful attempt
SuccessResult(e, bullets) ==
    LET missing == MissingIndexes(e.cached_bullets)
        n == Len(CommitsForLlm(e))
        fresh == Upto(bullets, n)
    IN  IF e.store /\ missing # <<>>
        THEN RepoLLMResult(TRUE, Upto(Merged(e.cached_bullets, missing, fresh),
                                      Len(e.commits)), e.retries, NoErr)
        ELSE RepoLLMResult(TRUE, fresh, e.retries, NoErr)

\* updates gathered whether or not prepare handed out a record id
CompletedUpdatesAnyId(e, bullets) ==
    LET ids == AchievementIdsForLlm(e)
        fresh == Upto(bullets, Len(CommitsForLlm(e)))
    IN  IF ~e.store THEN {}
        ELSE {[op |-> "completed", aid |-> ids[k], bullet |-> fresh[k]] :
                k \in {j \in 1..Len(fresh) : j <= Len(ids)}}

\* the mark_completed calls gathered after a successful attempt
CompletedUpdates(e, bullets) ==
    LET ids == AchievementIdsForLlm(e)
        fresh == Upto(bullets, Len(CommitsForLlm(e)))
    IN  IF ~e.store THEN {}
        ELSE {[op |-> "completed", aid |-> ids[k], bullet |-> fresh[k]] :
                k \in {j \in 1..Len(fresh) : j <= Len(ids) /\ ids[j] # 0}}

\* the mark_failed calls gathered after the last attempt failed
FailedUpdates(e) ==
    LET ids == AchievementIdsForLlm(e)
    IN  IF ~e.store THEN {}
        ELSE {[op |-> "failed", aid |-> ids[k], bullet |-> <<>>] :
                k \in {j \in 1..Len(ids) : ids[j] # 0}}

\* the code after a result is built: gather the store updates, then return
WriteBack(e, res, updates) ==
    IF updates # {}
    THEN [e EXCEPT !.pc = "write_back", !.res = res, !.writes = updates]
    ELSE [e EXCEPT !.pc = "returned", !.res = res]

\* the code after the retry loop is left by break
Failed(e, err) ==
    LET res == RepoLLMResult(FALSE, <<>>, e.retries,
                             IF err.text = "" THEN DefaultErr ELSE err)
    IN  WriteBack([e EXCEPT !.last_err = err], res, FailedUpdates(e))

\* the code between prepare_repo_commits and the first backend call
AfterPrepare(e, cached, ids) ==
    LET e1 == [e EXCEPT !.cached_bullets = cached, !.achievement_ids = ids]
    IN  IF e.store /\ MissingIndexes(cached) = <<>> /\ Len(e.commits) > 0
        THEN [e1 EXCEPT !.pc = "returned",
                        !.res = RepoLLMResult(TRUE,
                                    Upto([i \in 1..Len(cached) |-> Strip(cached[i])],
                                         Len(e.commits)), 0, NoErr)]
        ELSE [e1 EXCEPT !.pc = "attempt"]

\* after a step of task t: t keeps the event loop unless the step ended at an await
\* (or the coroutine ended and nothing of the caller runs after it)
Holds(e) ==
    \/ e.pc \in {"attempt", "in_call", "join"}
    \/ e.pc \in {"returned", "raised"} /\ e.caller = "window"

CanRun(t) == running \in {0, t}

\* what no step of the summarization pipeline touches
envVars == <<dbConfigured, maxRetriesArg, vw, dc, rd, cr, ml, sb, su>>
winVars == <<req, task>>

\* the entry of summarize_repo_async, up to its first await
Enter(caller, repo, commits, maxRetries, useCache) ==
    LET store == useCache /\ dbConfigured
        e == [IdleEng EXCEPT !.caller = caller, !.repo_name = repo, !.commits = commits,
                             !.max_retries = maxRetries, !.store = store,
                             !.payload_checksums =
                                 IF store
                                 THEN [i \in 1..Len(commits) |->
                                          PayloadChecksum(repo, commits[i])]
                                 ELSE <<>>]
    IN  IF store THEN [e EXCEPT !.pc = "prepare"]
        ELSE AfterPrepare(e, [i \in 1..Len(commits) |-> None],
                             [i \in 1..Len(commits) |-> 0])

\* the observer follows the direct caller's call only
Step(t, e, o) ==
    /\ eng' = [eng EXCEPT ![t] = e]
    /\ obs' = [obs EXCEPT ![t] = IF e.caller = "direct" THEN o ELSE IdleObs]
    /\ running' = IF Holds(e) THEN t ELSE 0

\* await store.prepare_repo_commits(...) commits its transaction
PrepareOk(t) ==
    /\ CanRun(t)
    /\ eng[t].pc = "prepare"
    /\ LET e == eng[t]
           st == PrepareRepoCommits(commitsTbl, achievements, e.repo_name,
                                    e.commits, e.payload_checksums)
           before == Tables(repositories, commitsTbl, achievements)
           after == Transaction(before,
                                PreparedUpTo(before, e.repo_name, e.commits,
                                             e.payload_checksums, Len(e.commits)),
                                TRUE)
       IN  /\ repositories' = after.repositories
           /\ commitsTbl' = after.tbl
           /\ achievements' = after.ach
           /\ Step(t, AfterPrepare(e, st.cached, st.ids),
                   [obs[t] EXCEPT !.prepare = "ok"])
    /\ UNCHANGED <<envVars, inflight, background, callNo, prev, winVars>>

\* await store.prepare_repo_commits(...) raises after k commits of the batch: the
\* transaction is rolled back, the call goes on without the store's answer
PrepareFail(t) ==
    /\ CanRun(t)
    /\ eng[t].pc = "prepare"
    /\ \E k \in 0..Len(eng[t].commits) :
        LET e == eng[t]
            before == Tables(repositories, commitsTbl, achievements)
            after == Transaction(before,
                                 PreparedUpTo(before, e.repo_name, e.commits,
                                              e.payload_checksums, k),
                                 FALSE)
        IN  /\ repositories' = after.repositories
            /\ commitsTbl' = after.tbl
            /\ achievements' = after.ach
            /\ Step(t, AfterPrepare(e, [i \in 1..Len(e.commits) |-> None],
                                        [i \in 1..Len(e.commits) |-> 0]),
                    [obs[t] EXCEPT !.prepare = "failed"])
    /\ UNCHANGED <<envVars, inflight, background, callNo, prev, winVars>>

\* ex.submit(ai_client.generate_ai_summary, prompt); fut.result(timeout) blocks
BackendStart(t) ==
    /\ CanRun(t)
    /\ eng[t].pc = "attempt"
    /\ inflight' = inflight + 1
    /\ Step(t, [eng[t] EXCEPT !.pc = "in_call"],
            [obs[t] EXCEPT !.calls = @ + 1,
                           !.prompt = SummarizeRepoOnce(eng[t].repo_name,
                                          CommitsForLlm(eng[t]), DefaultTokenBudget)])
    /\ UNCHANGED <<storeVars, envVars, background, callNo, prev, winVars>>

\* wait_s = min(4.0, 0.5 * (2**retries)), in milliseconds
BackoffBaseMs == 500
BackoffCapMs == 4000

\* a wait that doubles without a cap
BackoffUncapped(retries) == BackoffBaseMs * (2 ^ retries)

BackoffMs(retries) == Min(BackoffCapMs, BackoffBaseMs * (2 ^ retries))

\* a test that lets one more retry through
RetriesExhaustedLate(e) == e.retries > e.max_retries

\* if retries >= max_retries
RetriesExhausted(e) == e.retries >= e.max_retries

\* one entry of the observer's record of attempts
Attempted(kind, e, err) == [kind |-> kind, retries |-> e.retries, err |-> err]

\* the except branch: break when no retry is left, else sleep
AttemptRaised(t, kind, err) ==
    LET e == eng[t]
        o == [obs[t] EXCEPT !.attempts = @ \cup {"exception"},
                            !.log = Append(@, Attempted(kind, e, err))]
    IN  IF RetriesExhausted(e)
        THEN Step(t, Failed(e, err), [o EXCEPT !.issued = FailedUpdates(e)])
        ELSE Step(t, [e EXCEPT !.pc = "sleep", !.last_err = err],
                  [o EXCEPT !.sleeps = Append(@, BackoffMs(e.retries))])

\* the backend call ends with an exception before the timeout
BackendRaise(t) ==
    /\ CanRun(t)
    /\ eng[t].pc = "in_call"
    /\ inflight' = inflight - 1
    /\ \E err \in BackendErrors : AttemptRaised(t, "exception", err)
    /\ UNCHANGED <<storeVars, envVars, background, callNo, prev, winVars>>

\* fut.result(timeout=timeout_s) raises TimeoutError: leaving the `with` block
\* shuts the executor down with wait=True, which joins the worker thread
Timeout(t) ==
    /\ CanRun(t)
    /\ eng[t].pc = "in_call"
    /\ Step(t, [eng[t] EXCEPT !.pc = "join"], obs[t])
    /\ UNCHANGED <<storeVars, envVars, inflight, background, callNo, prev, winVars>>

\* the worker thread has ended: the TimeoutError, whose text is empty, reaches
\* the except branch
JoinOver(t) ==
    /\ CanRun(t)
    /\ eng[t].pc = "join"
    /\ inflight' = inflight - 1
    /\ AttemptRaised(t, "timeout", NoErr)
    /\ UNCHANGED <<storeVars, envVars, background, callNo, prev, winVars>>

\* await asyncio.sleep(wait_s) is over; retries += 1; continue
Wake(t) ==
    /\ CanRun(t)
    /\ eng[t].pc = "sleep"
    /\ Step(t, [eng[t] EXCEPT !.pc = "attempt", !.retries = @ + 1], obs[t])
    /\ UNCHANGED <<storeVars, envVars, inflight, background, callNo, prev, winVars>>

\* the backend call ends with a text
BackendReturn(t) ==
    /\ CanRun(t)
    /\ eng[t].pc = "in_call"
    /\ inflight' = inflight - 1
    /\ \E text \in Responses :
        LET e == eng[t]
            bullets == ExtractBullets(text)
            n == Len(CommitsForLlm(e))
            short == Attempted("short", e, CoverageErr(Len(bullets), n))
        IN  IF Len(bullets) >= n
            THEN Step(t, WriteBack(e, SuccessResult(e, bullets),
                                   CompletedUpdates(e, bullets)),
                      [obs[t] EXCEPT !.attempts = @ \cup {"ok"}, !.valid = bullets,
                                     !.issued = CompletedUpdates(e, bullets),
                                     !.log = Append(@, Attempted("ok", e, NoErr))])
            ELSE IF RetriesExhausted(e)
            THEN Step(t, Failed(e, CoverageErr(Len(bullets), n)),
                      [obs[t] EXCEPT !.attempts = @ \cup {"short"},
                                     !.issued = FailedUpdates(e),
                                     !.log = Append(@, short)])
            ELSE Step(t, [e EXCEPT !.pc = "attempt", !.retries = @ + 1],
                      [obs[t] EXCEPT !.attempts = @ \cup {"short"},
                                     !.log = Append(@, short)])
    /\ UNCHANGED <<storeVars, envVars, background, callNo, prev, winVars>>

ApplyWrite(ach, w) ==
    IF w.op = "completed" THEN MarkCompleted(ach, w.aid, w.bullet)
    ELSE MarkFailed(ach, w.aid)

\* one of the gathered mark_completed / mark_failed calls commits
WriteOk(t) ==
    /\ CanRun(t)
    /\ eng[t].pc = "write_back"
    /\ \E w \in eng[t].writes :
        LET e == [eng[t] EXCEPT !.writes = @ \ {w}]
        IN  /\ achievements' = ApplyWrite(achievements, w)
            /\ Step(t, IF e.writes = {} THEN [e EXCEPT !.pc = "returned"] ELSE e, obs[t])
    /\ UNCHANGED <<repositories, commitsTbl, envVars, inflight, background, callNo, prev, winVars>>

\* one of the gathered calls raises: gather raises into summarize_repo_async,
\* which has no handler around it; the other gathered calls are not cancelled
WriteFail(t) ==
    /\ CanRun(t)
    /\ eng[t].pc = "write_back"
    /\ \E w \in eng[t].writes :
        /\ background' = background \cup (eng[t].writes \ {w})
        /\ Step(t, [eng[t] EXCEPT !.writes = {}, !.pc = "raised"],
                [obs[t] EXCEPT !.write_failed = TRUE])
    /\ UNCHANGED <<storeVars, envVars, inflight, callNo, prev, winVars>>

\* an update left behind by a raising gather commits after all
BackgroundWrite ==
    /\ running = 0
    /\ \E w \in background :
        /\ background' = background \ {w}
        /\ achievements' = ApplyWrite(achievements, w)
    /\ UNCHANGED <<repositories, commitsTbl, envVars, eng, obs, running, inflight,
                   callNo, prev, winVars>>

(* ------------------ direct calls, as the tests make them -------------- *)
Caller == 1
DirectRepo == "r1"

NoPrev == [good |-> FALSE, commits |-> <<>>, bullet_lines |-> <<>>]

\* the call returned ok=true and every store operation of it succeeded
GoodRun(e, o) ==
    e.pc = "returned" /\ e.res.ok /\ e.store /\ o.prepare = "ok" /\ ~o.write_failed

\* asyncio.run(summarize_repo_async(...)): the next call starts when the last ended
Call ==
    /\ running = 0
    /\ eng[Caller].pc \in {"idle", "returned", "raised"}
    /\ callNo < MaxCalls
    /\ callNo' = callNo + 1
    /\ prev' = IF GoodRun(eng[Caller], obs[Caller])
                THEN [good |-> TRUE, commits |-> eng[Caller].commits,
                      bullet_lines |-> eng[Caller].res.bullet_lines]
                ELSE NoPrev
    /\ \E commits \in AllCommitLists :
        Step(Caller, Enter("direct", DirectRepo, commits, maxRetriesArg, TRUE),
             IdleObs)
    \* asyncio.run cancels what the call left running
    /\ background' = {}
    /\ UNCHANGED <<storeVars, envVars, inflight, winVars>>

(* ---------------------- build_repo_task_lines_non_ai ------------------ *)
Prefixes ==
    << <<"f", "e", "a", "t", ":">>, <<"f", "i", "x", ":">>,
       <<"r", "e", "f", "a", "c", "t", "o", "r", ":">>, <<"t", "e", "s", "t", ":">>,
       <<"c", "h", "o", "r", "e", ":">>, <<"p", "e", "r", "f", ":">>, <<"c", "i", ":">> >>

RECURSIVE CleanFrom(_, _)
CleanFrom(s, k) ==
    IF k > Len(Prefixes) THEN s
    ELSE IF StartsWith(Lower(s), Prefixes[k]) THEN Strip(From(s, Len(Prefixes[k])))
    ELSE CleanFrom(s, k + 1)

CleanCommitMessage(msg) == CleanFrom(Strip(msg), 1)

DefaultTask ==
    <<"m", "e", "l", "a", "k", "u", "k", "a", "n", " ", "p", "e", "r", "u", "b", "a",
      "h", "a", "n", " ", "k", "o", "d", "e">>

NonAiLine(c) ==
    LET msg == Strip(CleanCommitMessage(c.message))
    IN  SayaSp \o (IF msg = <<>> THEN DefaultTask ELSE msg)

\* a builder that drops the commits whose cleaned message is empty
BuildRepoTaskLinesSkipEmpty(repo) ==
    LET keep == SelectSeq(repo.detailed_commits,
                          LAMBDA c : Strip(CleanCommitMessage(c.message)) # <<>>)
    IN  [i \in 1..Len(keep) |-> NonAiLine(keep[i])]

BuildRepoTaskLinesNonAi(repo) ==
    [i \in 1..Len(repo.detailed_commits) |-> NonAiLine(repo.detailed_commits[i])]

(* ---------------------------- validate_window ------------------------ *)
MinutesPerDay == 1440
MaxDays == 365

\* a timestamp argument: text that strptime refuses, or the minute it denotes in
\* Asia/Jakarta (no daylight saving: minutes count straight)
Malformed == [ok |-> FALSE, minute |-> 0]
Stamp(m) == [ok |-> TRUE, minute |-> m]

\* timedelta.days of a positive difference given in minutes
TimedeltaDays(minutes) == minutes \div MinutesPerDay

ErrFormat == "Invalid datetime format. Use YYYY-MM-DD HH:MM (WIB)."
ErrOrder == "Invalid window. since must be earlier than until."
ErrTooLarge == "Window too large. Maximum allowed is 365 days."
ErrFuture == "Datetimes in the future are not allowed."

\* the error text of validate_window, "" for None; `now` is the minute of the clock
ValidateWindow(since, until, now) ==
    IF ~since.ok \/ ~until.ok THEN ErrFormat
    ELSE IF since.minute >= until.minute THEN ErrOrder
    ELSE IF TimedeltaDays(until.minute - since.minute) > MaxDays THEN ErrTooLarge
    ELSE IF since.minute > now \/ until.minute > now THEN ErrFuture
    ELSE ""

\* window lengths, in minutes, around the limits of the checks
Spans ==
    {0 - 1, 0, 1, MaxDays * MinutesPerDay - 1, MaxDays * MinutesPerDay,
     MaxDays * MinutesPerDay + 1, (MaxDays + 1) * MinutesPerDay - 1,
     (MaxDays + 1) * MinutesPerDay, 400 * MinutesPerDay}

Sinces == {Malformed} \cup {Stamp(m) : m \in 0..MaxSinceMinute}
Untils == {Malformed} \cup {Stamp(m + d) : m \in 0..MaxSinceMinute, d \in Spans}

\* the clock: before, at and after a timestamp
Clocks(since, until) ==
    {since.minute - 1, since.minute, until.minute - 1, until.minute, until.minute + 1}

IdleValidate ==
    [pc |-> "idle", since |-> Malformed, until |-> Malformed, now |-> 0, err |-> ""]

\* validate_window(since=..., until=...)
ValidateCall ==
    /\ vw.pc = "idle"
    /\ \E since \in Sinces, until \in Untils :
        \E now \in Clocks(since, until) :
            vw' = [pc |-> "returned", since |-> since, until |-> until, now |-> now,
                   err |-> ValidateWindow(since, until, now)]
    /\ UNCHANGED <<storeVars, dbConfigured, maxRetriesArg, dc, rd, cr, ml, sb, su, eng, obs, running,
                   inflight, background, callNo, prev, winVars>>

\* the caller is done with the answer
ValidateDone ==
    /\ vw.pc = "returned"
    /\ vw' = IdleValidate
    /\ UNCHANGED <<storeVars, dbConfigured, maxRetriesArg, dc, rd, cr, ml, sb, su, eng, obs, running,
                   inflight, background, callNo, prev, winVars>>

(* ------------------------- send_message_or_file ----------------------- *)
\* what the calls outside the pipeline leave alone
pipelineVars == <<storeVars, dbConfigured, maxRetriesArg, eng, obs, running, inflight,
                  background, callNo, prev, winVars>>

\* retry_after = 5.0, unless the body of the 429 names a positive one
DefaultRetryAfter == 5
\* time.sleep(5) before the retry after another failure
RetryDelay == 5

\* how an attempt can end: an exception, or a status with a body; the body of a
\* 429 carries retry_after (0: absent or not a positive number)
Statuses == {199, 200, 204, 299, 300, 429, 500}
Bodies == {"", "boom"}
RetryAfters == {0, 2}

Raised == [kind |-> "exception", status |-> 0, body |-> "", retry_after |-> 0]
Answer(s, b, ra) == [kind |-> "status", status |-> s, body |-> b, retry_after |-> ra]

Outcomes ==
    {Raised}
        \cup {Answer(st, b, 0) : st \in Statuses \ {429}, b \in Bodies}
        \cup {Answer(429, "", ra) : ra \in RetryAfters}

\* error texts; status_code None is 0
NoError == [text |-> "", status |-> 0]
ErrText(t) == [text |-> t, status |-> 0]
HttpErr(st) == [text |-> "http_", status |-> st]

DiscordResult(ok, status, error, retries) ==
    [ok |-> ok, status_code |-> status, error |-> error, retry_count |-> retries]

IdleSend ==
    [pc |-> "idle", creds |-> FALSE, retry_once |-> FALSE, attempt |-> 0,
     retry_count |-> 0, last_err |-> NoError, last_status |-> 0,
     log |-> <<>>, slept |-> <<>>,
     result |-> DiscordResult(FALSE, 0, NoError, 0)]

\* a retry allowed as long as fewer than two were made
MayRetryTwice(d) == d.retry_once /\ d.retry_count < 2

\* if retry_once and retry_count < 1
MayRetry(d) == d.retry_once /\ d.retry_count < 1

\* retry_count += 1; time.sleep(secs); continue
SendRetry(d, secs) ==
    [d EXCEPT !.pc = "sleep", !.retry_count = @ + 1, !.slept = Append(@, secs)]

\* break: the return after the loop
SendGiveUp(d) ==
    [d EXCEPT !.pc = "returned",
              !.result = DiscordResult(FALSE, d.last_status, d.last_err, d.retry_count)]

\* one pass of the loop that ended with outcome o
AfterAttempt(d, o) ==
    LET d1 == [d EXCEPT !.attempt = @ + 1, !.log = Append(@, o)]
    IN  IF o.kind = "exception"
        THEN LET d2 == [d1 EXCEPT !.last_err = ErrText("exception")]
             IN  IF MayRetry(d2) THEN SendRetry(d2, RetryDelay) ELSE SendGiveUp(d2)
        ELSE LET d2 == [d1 EXCEPT !.last_status = o.status]
             IN  IF o.status = 429
                 THEN IF MayRetry(d2)
                      THEN SendRetry(d2, IF o.retry_after > 0 THEN o.retry_after
                                         ELSE DefaultRetryAfter)
                      ELSE SendGiveUp([d2 EXCEPT !.last_err = ErrText("rate_limited")])
                 ELSE IF 200 <= o.status /\ o.status < 300
                 THEN [d2 EXCEPT !.pc = "returned",
                                 !.result = DiscordResult(TRUE, o.status, NoError,
                                                          d2.retry_count)]
                 ELSE LET d3 == [d2 EXCEPT !.last_err =
                                     IF o.body # "" THEN ErrText(o.body)
                                     ELSE HttpErr(o.status)]
                      IN  IF MayRetry(d3) THEN SendRetry(d3, RetryDelay)
                          ELSE SendGiveUp(d3)

\* the call, up to the loop: without credentials it returns at once
SendCall ==
    /\ dc.pc = "idle"
    /\ \E creds \in BOOLEAN, once \in BOOLEAN :
        dc' = IF ~creds
              THEN [IdleSend EXCEPT !.pc = "returned", !.retry_once = once,
                        !.result = DiscordResult(FALSE, 0, ErrText("missing_credentials"), 0)]
              ELSE [IdleSend EXCEPT !.pc = "request", !.creds = TRUE, !.retry_once = once]
    /\ UNCHANGED <<pipelineVars, vw, rd, cr, ml, sb, su>>

\* one attempt
SendAttempt ==
    /\ dc.pc = "request"
    /\ \E o \in Outcomes : dc' = AfterAttempt(dc, o)
    /\ UNCHANGED <<pipelineVars, vw, rd, cr, ml, sb, su>>

\* time.sleep is over
SendSleepOver ==
    /\ dc.pc = "sleep"
    /\ dc' = [dc EXCEPT !.pc = "request"]
    /\ UNCHANGED <<pipelineVars, vw, rd, cr, ml, sb, su>>

(* ---------------------------- run_daily.main -------------------------- *)
\* a date: date.weekday() (0 is Monday) and date.day
Weekdays == 0..6
MonthDays == {1, 2, 3, 8}
Date(wd, d) == [weekday |-> wd, day |-> d]

\* a check that takes Saturday for a working day
IsWeekdayWithSaturday(day) == day.weekday < 6

\* _is_weekday
IsWeekday(day) == day.weekday < 5

\* _is_first_weekday_of_month: walk from the first of the month to the first day
\* that is no Saturday or Sunday
IsFirstWeekdayOfMonth(day) ==
    LET first == (day.weekday + 35 - (day.day - 1)) % 7
        skip == IF first = 5 THEN 2 ELSE IF first = 6 THEN 1 ELSE 0
    IN  day.day = 1 + skip

\* the state file: no date, the report date (yesterday), or an earlier one
LastDates == {"none", "report_date", "earlier"}

IdleDaily ==
    [pc |-> "idle", today |-> Date(0, 1), early |-> FALSE, last |-> "none",
     last0 |-> "none", json |-> FALSE, launched |-> <<>>, sent |-> 0]

\* set_last_execution_date(report_date): a failure to write is logged and ignored
SetLast(r, written) == IF written THEN [r EXCEPT !.last = "report_date"] ELSE r

\* main() up to the daily generation: the four early returns
DailyStart ==
    /\ rd.pc = "idle"
    /\ \E wd \in Weekdays, d \in MonthDays, early \in BOOLEAN, last \in LastDates,
          json \in BOOLEAN, written \in BOOLEAN :
        LET r == [IdleDaily EXCEPT !.today = Date(wd, d), !.early = early,
                                   !.last = last, !.last0 = last, !.json = json]
        IN  rd' = IF ~IsWeekday(r.today) THEN [r EXCEPT !.pc = "returned"]
                  ELSE IF early THEN [r EXCEPT !.pc = "returned"]
                  ELSE IF last = "report_date" THEN [r EXCEPT !.pc = "returned"]
                  ELSE IF json THEN [SetLast(r, written) EXCEPT !.pc = "returned"]
                  ELSE [r EXCEPT !.pc = "generate"]
    /\ UNCHANGED <<pipelineVars, vw, dc, cr, ml, sb, su>>

\* _run_main(["--ai"]): a failure is raised, a success is recorded in the state file
DailyGenerate ==
    /\ rd.pc = "generate"
    /\ \E ok \in BOOLEAN, written \in BOOLEAN :
        LET r == [rd EXCEPT !.launched = Append(@, "daily")]
        IN  rd' = IF ~ok THEN [r EXCEPT !.pc = "raised"]
                  ELSE [SetLast(r, written) EXCEPT !.pc = "notify"]
    /\ UNCHANGED <<pipelineVars, vw, dc, cr, ml, sb, su>>

\* send_daily_standup(...): whatever it returns or raises, main goes on
DailyNotify ==
    /\ rd.pc = "notify"
    /\ rd' = [rd EXCEPT !.sent = @ + 1,
                        !.pc = IF rd.today.day <= 7 /\ IsFirstWeekdayOfMonth(rd.today)
                               THEN "monthly" ELSE "returned"]
    /\ UNCHANGED <<pipelineVars, vw, dc, cr, ml, sb, su>>

\* _run_main(["--monthly", prev_month, "--ai"]): a failure is logged
DailyMonthly ==
    /\ rd.pc = "monthly"
    /\ rd' = [rd EXCEPT !.launched = Append(@, "monthly"), !.pc = "returned"]
    /\ UNCHANGED <<pipelineVars, vw, dc, cr, ml, sb, su>>


(* ------------- run_daily.main next to run_on_startup.main ------------- *)
MaxRuns == 2
MaxInvocations == 3

Runs == 1..MaxRuns

IdleRun == [kind |-> "none", pc |-> "idle"]

\* last and json are data/state.json and data/daily/<report date>.json, generated
\* the daily generations that succeeded for the report date
IdleRuns ==
    [pc |-> "idle", weekday |-> TRUE, early |-> FALSE, last |-> "none",
     last0 |-> "none", json |-> FALSE, json0 |-> FALSE, generated |-> 0,
     invocations |-> 0, run |-> [p \in Runs |-> IdleRun]]

\* the day, the clock and the files as the first run finds them
RunsStart ==
    /\ su.pc = "idle"
    /\ \E weekday \in BOOLEAN, early \in BOOLEAN, last \in LastDates, json \in BOOLEAN :
        su' = [IdleRuns EXCEPT !.pc = "ready", !.weekday = weekday, !.early = early,
                               !.last = last, !.last0 = last, !.json = json,
                               !.json0 = json]
    /\ UNCHANGED <<pipelineVars, vw, dc, rd, cr, ml, sb>>

At(p, pc) == su.pc = "ready" /\ su.run[p].pc = pc

Goto(r, p, pc) == [r EXCEPT !.run[p].pc = pc]

\* cron starts run_daily.py, or the startup hook run_on_startup.py
Invoke(p, kind) ==
    /\ At(p, "idle")
    /\ su.invocations < MaxInvocations
    /\ su' = [su EXCEPT !.invocations = @ + 1,
                        !.run[p] = [kind |-> kind,
                                    pc |-> IF kind = "startup" THEN "s_begin"
                                           ELSE "begin"]]
    /\ UNCHANGED <<pipelineVars, vw, dc, rd, cr, ml, sb>>

InvokeDaily(p) == Invoke(p, "daily")

InvokeStartup(p) == Invoke(p, "startup")

\* run_on_startup.main: no recovery before 06:00
StartupBegin(p) ==
    /\ At(p, "s_begin")
    /\ su' = Goto(su, p, IF su.early THEN "returned" ELSE "s_state")
    /\ UNCHANGED <<pipelineVars, vw, dc, rd, cr, ml, sb>>

\* last = get_last_execution_date()
StartupState(p) ==
    /\ At(p, "s_state")
    /\ su' = Goto(su, p, IF su.last = "report_date" THEN "returned" ELSE "s_json")
    /\ UNCHANGED <<pipelineVars, vw, dc, rd, cr, ml, sb>>

\* _daily_json_path(date_str).exists(); if not, subprocess.run of run_daily.py
StartupJson(p) ==
    /\ At(p, "s_json")
    /\ su' = Goto(su, p, IF su.json THEN "returned" ELSE "begin")
    /\ UNCHANGED <<pipelineVars, vw, dc, rd, cr, ml, sb>>

\* run_daily.main: weekend, before 06:00
DailyBegin(p) ==
    /\ At(p, "begin")
    /\ su' = Goto(su, p, IF ~su.weekday \/ su.early THEN "returned" ELSE "state")
    /\ UNCHANGED <<pipelineVars, vw, dc, rd, cr, ml, sb>>

\* last = get_last_execution_date()
DailyState(p) ==
    /\ At(p, "state")
    /\ su' = Goto(su, p, IF su.last = "report_date" THEN "returned" ELSE "json")
    /\ UNCHANGED <<pipelineVars, vw, dc, rd, cr, ml, sb>>

\* _daily_json_path(report_date).exists(): the date is recorded, no generation
DailyJson(p) ==
    /\ At(p, "json")
    /\ \E written \in BOOLEAN :
        su' = IF su.json THEN Goto(SetLast(su, written), p, "returned")
              ELSE Goto(su, p, "collect")
    /\ UNCHANGED <<pipelineVars, vw, dc, rd, cr, ml, sb>>

\* main.py --ai: the activity is collected and the daily JSON written
GenerateCollect(p) ==
    /\ At(p, "collect")
    /\ \E ok \in BOOLEAN :
        su' = IF ok THEN Goto([su EXCEPT !.json = TRUE], p, "markdown")
              ELSE Goto(su, p, "raised")
    /\ UNCHANGED <<pipelineVars, vw, dc, rd, cr, ml, sb>>

\* main.py --ai: the markdown is generated and saved, the subprocess exits with 0
GenerateMarkdown(p) ==
    /\ At(p, "markdown")
    /\ \E ok \in BOOLEAN :
        su' = IF ok THEN Goto([su EXCEPT !.generated = @ + 1], p, "set_last")
              ELSE Goto(su, p, "raised")
    /\ UNCHANGED <<pipelineVars, vw, dc, rd, cr, ml, sb>>

\* set_last_execution_date(report_date) after the generation
DailySetLast(p) ==
    /\ At(p, "set_last")
    /\ \E written \in BOOLEAN : su' = Goto(SetLast(su, written), p, "rest")
    /\ UNCHANGED <<pipelineVars, vw, dc, rd, cr, ml, sb>>

\* the notification and the monthly report: neither reads or writes the two files
DailyRest(p) ==
    /\ At(p, "rest")
    /\ su' = Goto(su, p, "returned")
    /\ UNCHANGED <<pipelineVars, vw, dc, rd, cr, ml, sb>>

\* the process is gone
RunExit(p) ==
    /\ su.pc = "ready"
    /\ su.run[p].pc \in {"returned", "raised"}
    /\ su' = [su EXCEPT !.run[p] = IdleRun]
    /\ UNCHANGED <<pipelineVars, vw, dc, rd, cr, ml, sb>>

RunStep(p) ==
    \/ InvokeDaily(p) \/ InvokeStartup(p)
    \/ StartupBegin(p) \/ StartupState(p) \/ StartupJson(p)
    \/ DailyBegin(p) \/ DailyState(p) \/ DailyJson(p)
    \/ GenerateCollect(p) \/ GenerateMarkdown(p) \/ DailySetLast(p) \/ DailyRest(p)
    \/ RunExit(p)


(* ------------------- install_cron_job, remove_cron_job ---------------- *)
\* a line of the crontab is a sequence of characters; "M" stands for the marker
\* text "# dev-memory:run_daily"
CronMarker == "M"

\* _cron_command(): schedule, interpreter, script, marker
CronCommand == <<"0", " ", CronMarker>>

\* marker in line
HasMarker(line) == \E i \in 1..Len(line) : line[i] = CronMarker

\* [line.rstrip() for line in lines if line.strip()]
RECURSIVE CronClean(_)
CronClean(lines) ==
    IF lines = <<>> THEN <<>>
    ELSE IF Strip(Head(lines)) = <<>> THEN CronClean(Tail(lines))
    ELSE <<RStrip(Head(lines))>> \o CronClean(Tail(lines))

\* [line for line in existing if marker not in line]
RECURSIVE WithoutMarker(_)
WithoutMarker(lines) ==
    IF lines = <<>> THEN <<>>
    ELSE IF HasMarker(Head(lines)) THEN WithoutMarker(Tail(lines))
    ELSE <<Head(lines)>> \o WithoutMarker(Tail(lines))

\* an install that appends its line whatever the crontab holds
InstallAlways(existing) ==
    [wrote |-> TRUE, lines |-> Append(CronClean(existing), CronCommand)]

\* install_cron_job on the lines read: whether it writes, and the lines afterwards
InstallCronJob(existing) ==
    IF \E i \in 1..Len(existing) : HasMarker(existing[i])
    THEN [wrote |-> FALSE, lines |-> existing]
    ELSE [wrote |-> TRUE, lines |-> Append(CronClean(existing), CronCommand)]

\* remove_cron_job on the lines read
RemoveCronJob(existing) ==
    LET filtered == WithoutMarker(existing)
    IN  IF Len(filtered) = Len(existing)
        THEN [wrote |-> FALSE, lines |-> existing]
        ELSE [wrote |-> TRUE, lines |-> CronClean(filtered)]

\* the crontabs a user may have: jobs, a job with blanks at its end, an empty
\* line, a line installed earlier; at most one line with the marker
CronLines == {<<"a">>, <<"b", " ">>, <<>>, <<"1", " ", CronMarker>>}

Crontabs ==
    {c \in UNION {[1..n -> CronLines] : n \in 0..MaxCronLines} :
        Cardinality({i \in 1..Len(c) : HasMarker(c[i])}) <= 1}

IdleCron ==
    [pc |-> "idle", lines |-> <<>>, lines0 |-> <<>>, before |-> <<>>, op |-> "none",
     wrote |-> FALSE, calls |-> 0]

\* the crontab as the first call finds it
CronStart ==
    /\ cr.pc = "idle"
    /\ \E c \in Crontabs : cr' = [IdleCron EXCEPT !.pc = "ready", !.lines = c, !.lines0 = c]
    /\ UNCHANGED <<pipelineVars, vw, dc, rd, ml, sb, su>>

CronCall(op, out) ==
    /\ cr.pc = "ready"
    /\ cr.calls < MaxCronCalls
    /\ cr' = [cr EXCEPT !.lines = out.lines, !.before = cr.lines, !.op = op,
                        !.wrote = out.wrote, !.calls = @ + 1]
    /\ UNCHANGED <<pipelineVars, vw, dc, rd, ml, sb, su>>

\* python main.py --install-cron
CronInstall == CronCall("install", InstallCronJob(cr.lines))

\* python main.py --remove-cron
CronRemove == CronCall("remove", RemoveCronJob(cr.lines))

(* --------------------- generate_achievement_window -------------------- *)
DefaultMaxRetries == 2
DefaultMaxConcurrency == 3

\* LLM_MAX_CONCURRENCY as the environment may hold it: <<>> when unset or not a
\* number, <<n>> for the integer n
ConcurrencyEnv == {<<>>} \cup {<<n>> : n \in 0..MaxConcurrencyEnv}

EnvInt(raw, default) == IF raw = <<>> THEN default ELSE raw[1]

RepoNames == [i \in 1..NumRepos |-> <<"r1", "r2", "r3", "r4">>[i]]

Repo(name, commits, expected, count) ==
    [name |-> name, commit_count_expected |-> expected, commit_count |-> count,
     detailed_commits |-> commits]

\* what the Commit Source hands over for one window: a commit list per repository,
\* the messages stripped as _parse_log_output strips them
WindowLists ==
    {[i \in 1..Len(cs) |-> Commit(cs[i].hash, Strip(cs[i].message))] :
        cs \in {l \in AllCommitLists : \A i \in 1..Len(l) : l[i].message = MsgCi}}

RECURSIVE SumLen(_, _)
SumLen(rs, i) == IF i > Len(rs) THEN 0 ELSE Len(rs[i]) + SumLen(rs, i + 1)

\* at most MaxWindowCommits commits in the window, over all repositories
Collected == {rs \in [1..NumRepos -> WindowLists] : SumLen(rs, 1) <= MaxWindowCommits}

\* a check of the expected count against the number of detailed commits alone
IntegrityExpectedOnly(repo) ==
    repo.commit_count_expected = Len(repo.detailed_commits)

IntegrityOk(repo) ==
    /\ repo.commit_count_expected = repo.commit_count
    /\ repo.commit_count = Len(repo.detailed_commits)

NoItem == [repo_name |-> "", commits_count |-> 0, bullets |-> <<>>, source |-> "none"]
Item(name, n, bullets, source) ==
    [repo_name |-> name, commits_count |-> n, bullets |-> bullets, source |-> source]

IdleTask == [pc |-> "none", item |-> NoItem]

\* err is the text of the validation error, did the steps the request went through,
\* finished the tasks of the request in the order the event loop saw them end
IdleReq ==
    [pc |-> "idle", repositories |-> <<>>, client |-> FALSE, max_concurrency |-> 0,
     sem |-> 0, out |-> <<>>, err |-> "", did |-> {}, finished |-> <<>>]

TaskOver(t) == task[t].pc \in {"none", "done", "failed"}

\* a request that has collected and loaded the client before it raises
RaiseValidationLate(err) ==
    [IdleReq EXCEPT !.pc = "raised", !.err = err, !.client = TRUE,
                    !.did = {"validate", "collect", "load_client"}]

\* raise ValueError(err), before anything else is done
RaiseValidation(err) ==
    [IdleReq EXCEPT !.pc = "raised", !.err = err, !.did = {"validate"}]

\* validate, collect, check integrity, load the client, create the tasks
Collect ==
    /\ running = 0
    /\ req.pc \in {"idle", "returned", "raised"}
    /\ \A t \in Tasks : TaskOver(t)
    /\ callNo < MaxRequests
    /\ callNo' = callNo + 1
    /\ \E since \in Sinces, until \in Untils :
        \E now \in Clocks(since, until) :
            LET err == ValidateWindow(since, until, now)
            IN  IF err # ""
                THEN /\ req' = RaiseValidation(err)
                     /\ task' = [t \in Tasks |-> IdleTask]
                ELSE \E lists \in Collected, bad \in 0..NumRepos,
                        field \in {"expected", "count"}, unnamed \in BOOLEAN,
                        client \in BOOLEAN, raw \in ConcurrencyEnv,
                        same \in BOOLEAN :
                    LET off(i, f) == IF bad = i /\ field = f THEN 1 ELSE 0
                        \* tracked paths may end in the same directory name
                        repos == [i \in 1..NumRepos |->
                                    Repo(IF unnamed /\ i = 1 THEN ""
                                         ELSE IF same THEN RepoNames[1]
                                         ELSE RepoNames[i],
                                         lists[i],
                                         Len(lists[i]) + off(i, "expected"),
                                         Len(lists[i]) + off(i, "count"))]
                        r0 == [IdleReq EXCEPT !.repositories = repos]
                    IN  IF \E i \in 1..NumRepos : ~IntegrityOk(repos[i])
                        THEN /\ req' = [r0 EXCEPT !.pc = "raised",
                                                  !.did = {"validate", "collect"}]
                             /\ task' = [t \in Tasks |-> IdleTask]
                        ELSE /\ req' =
                                [r0 EXCEPT !.pc = "gather", !.client = client,
                                      !.max_concurrency =
                                          Max(1, EnvInt(raw, DefaultMaxConcurrency)),
                                      !.sem = Max(1, EnvInt(raw, DefaultMaxConcurrency)),
                                      !.did = {"validate", "collect", "load_client",
                                               "tasks"}]
                             /\ task' = [t \in Tasks |->
                                            [IdleTask EXCEPT !.pc = "created"]]
    /\ eng' = [t \in Tasks |-> IdleEng]
    /\ obs' = [t \in Tasks |-> IdleObs]
    /\ UNCHANGED <<storeVars, envVars, running, inflight, background, prev>>

RepoOf(t) == req.repositories[t]

\* the body of `async with sem:` up to its first await
InGate(t) ==
    LET repo == RepoOf(t)
        n == Len(repo.detailed_commits)
    IN  IF ~req.client
        THEN /\ task' = [task EXCEPT ![t] =
                    [pc |-> "done",
                     item |-> Item(repo.name, n, Upto(BuildRepoTaskLinesNonAi(repo), n),
                                   "non_ai")]]
             /\ req' = [req EXCEPT !.finished = Append(@, t)]
             /\ UNCHANGED <<eng, obs, running>>
        ELSE /\ task' = [task EXCEPT ![t].pc = "in_gate"]
             /\ req' = [req EXCEPT !.sem = @ - 1]
             /\ Step(t, Enter("window", repo.name, repo.detailed_commits,
                              DefaultMaxRetries, TRUE), IdleObs)

\* a gate that lets every task in
GateOpen == TRUE

\* asyncio.Semaphore: a permit is free
GateFree == req.sem > 0

\* the task starts: a repository without a name or without commits is skipped, a
\* free gate is entered at once
TaskStart(t) ==
    /\ running = 0
    /\ task[t].pc = "created"
    /\ IF RepoOf(t).name = "" \/ Len(RepoOf(t).detailed_commits) <= 0
       THEN /\ task' = [task EXCEPT ![t].pc = "done"]
            /\ req' = [req EXCEPT !.finished = Append(@, t)]
            /\ UNCHANGED <<eng, obs, running>>
       ELSE IF GateFree
       THEN InGate(t)
       ELSE /\ task' = [task EXCEPT ![t].pc = "wait_gate"]
            /\ UNCHANGED <<req, eng, obs, running>>
    /\ UNCHANGED <<storeVars, envVars, inflight, background, callNo, prev>>

\* a waiting task gets a permit
Acquire(t) ==
    /\ running = 0
    /\ task[t].pc = "wait_gate"
    /\ GateFree
    /\ InGate(t)
    /\ UNCHANGED <<storeVars, envVars, inflight, background, callNo, prev>>

\* an exit that keeps the permit of a task that raised
PermitsAfterKeptOnRaise(sem, raised) == IF raised THEN sem ELSE sem + 1

\* the exit of `async with sem:` releases the permit, on a return and on a raise
PermitsAfter(sem, raised) == sem + 1

\* summarize_repo_async is over: the rest of _process_repo, and the permit back
ProcessRepoEnd(t) ==
    /\ CanRun(t)
    /\ task[t].pc = "in_gate"
    /\ eng[t].pc \in {"returned", "raised"}
    /\ LET repo == RepoOf(t)
           n == Len(repo.detailed_commits)
           res == eng[t].res
       IN  task' = [task EXCEPT ![t] =
                IF eng[t].pc = "raised" THEN [pc |-> "failed", item |-> NoItem]
                ELSE IF res.ok /\ Len(res.bullet_lines) >= n
                THEN [pc |-> "done",
                      item |-> Item(repo.name, n, Upto(res.bullet_lines, n), "llm")]
                ELSE [pc |-> "done",
                      item |-> Item(repo.name, n, Upto(BuildRepoTaskLinesNonAi(repo), n),
                                    "non_ai_fallback")]]
    /\ req' = [req EXCEPT !.sem = PermitsAfter(@, eng[t].pc = "raised"),
                          !.finished = Append(@, t)]
    /\ eng' = [eng EXCEPT ![t] = IdleEng]
    /\ running' = 0
    /\ UNCHANGED <<storeVars, envVars, obs, inflight, background, callNo, prev>>

\* the entries in the order in which the tasks ended, from the t-th to end
RECURSIVE ItemsAsCompleted(_)
ItemsAsCompleted(t) ==
    IF t > Len(req.finished) THEN <<>>
    ELSE IF task[req.finished[t]].item = NoItem THEN ItemsAsCompleted(t + 1)
    ELSE <<task[req.finished[t]].item>> \o ItemsAsCompleted(t + 1)

\* asyncio.gather returns the results in the order of the tasks it was given; None
\* results are skipped
RECURSIVE ItemsFrom(_)
ItemsFrom(t) ==
    IF t > NumRepos THEN <<>>
    ELSE IF task[t].item = NoItem THEN ItemsFrom(t + 1)
    ELSE <<task[t].item>> \o ItemsFrom(t + 1)

\* a gather that takes a raised task as a result of its own and goes on
GatherReturnExceptions ==
    /\ running = 0
    /\ req.pc = "gather"
    /\ \A t \in Tasks : task[t].pc \in {"done", "failed"}
    /\ req' = [req EXCEPT !.pc = "returned", !.out = ItemsFrom(1)]
    /\ UNCHANGED <<storeVars, envVars, eng, obs, running, inflight, background, callNo,
                   prev, task>>

\* results = await asyncio.gather(*tasks): every task returned
GatherReturn ==
    /\ running = 0
    /\ req.pc = "gather"
    /\ \A t \in Tasks : task[t].pc = "done"
    /\ req' = [req EXCEPT !.pc = "returned", !.out = ItemsFrom(1)]
    /\ UNCHANGED <<storeVars, envVars, eng, obs, running, inflight, background, callNo,
                   prev, task>>

\* a task raised: gather raises at once, the other tasks keep running; every task
\* created has run up to its first await by then, ahead of the one that raised
GatherRaise ==
    /\ running = 0
    /\ req.pc = "gather"
    /\ \E t \in Tasks : task[t].pc = "failed"
    /\ \A t \in Tasks : task[t].pc # "created"
    /\ req' = [req EXCEPT !.pc = "raised"]
    /\ UNCHANGED <<storeVars, envVars, eng, obs, running, inflight, background, callNo,
                   prev, task>>

(* --------------------------- split_repo_block -------------------------- *)
MaxBlockLines == 3

\* a text of k times the character c
Rep(c, k) == [i \in 1..k |-> c]

\* "\n".join(arr)
RECURSIVE JoinLines(_)
JoinLines(arr) ==
    IF arr = <<>> THEN <<>>
    ELSE IF Len(arr) = 1 THEN arr[1]
    ELSE arr[1] \o <<"\n">> \o JoinLines(Tail(arr))

\* f"## Repository: {repo_name}".strip()
Heading(repo_name) ==
    Strip(<<"#", "#", " ", "R", "e", "p", "o", "s", "i", "t", "o", "r", "y", ":", " ">>
            \o repo_name)

\* "\n\n(lanjutan...)"
Continuation ==
    <<"\n", "\n", "(", "l", "a", "n", "j", "u", "t", "a", "n", ".", ".", ".", ")">>

\* [ln.rstrip() for ln in task_lines if ln.strip()]
RECURSIVE KeptLines(_)
KeptLines(task_lines) ==
    IF task_lines = <<>> THEN <<>>
    ELSE IF Strip(task_lines[1]) = <<>> THEN KeptLines(Tail(task_lines))
    ELSE <<RStrip(task_lines[1])>> \o KeptLines(Tail(task_lines))

\* _buf_text(next_line)
BufText(buf, ln) == Strip(JoinLines(Append(buf, ln)))

\* one turn of the loop on line ln: the chunks closed so far and the open buffer
SplitStep(heading, limit, st, ln) ==
    IF Len(BufText(st.buf, ln)) <= limit
    THEN [st EXCEPT !.buf = Append(@, ln)]
    ELSE IF Len(st.buf) > 1
    THEN [chunks |-> Append(st.chunks, st.buf), buf |-> <<heading, ln>>]
    ELSE LET closed == Append(st.chunks, st.buf)
         IN  IF Len(BufText(<<heading>>, ln)) <= limit
             THEN [chunks |-> closed, buf |-> <<heading, ln>>]
             ELSE IF StartsWith(Strip(ln), DashSp)
             THEN [chunks |-> Append(closed,
                        <<heading, Upto(ln, Max(0, limit - Len(heading) - 1))>>),
                   buf |-> <<heading>>]
             ELSE [chunks |-> Append(closed, <<Upto(ln, limit)>>),
                   buf |-> <<heading>>]

\* the loop over lines[1:], then the open buffer is closed
RECURSIVE SplitLoop(_, _, _, _)
SplitLoop(heading, limit, st, rest) ==
    IF rest = <<>> THEN Append(st.chunks, st.buf)
    ELSE SplitLoop(heading, limit, SplitStep(heading, limit, st, rest[1]), Tail(rest))

\* the chunks as lists of lines
SplitChunks(repo_name, task_lines, limit) ==
    SplitLoop(Heading(repo_name), limit,
              [chunks |-> <<>>, buf |-> <<Heading(repo_name)>>], KeptLines(task_lines))

\* the texts: every chunk after the first carries the continuation marker
SplitRepoBlock(repo_name, task_lines, limit) ==
    LET chunks == SplitChunks(repo_name, task_lines, limit)
    IN  [c \in 1..Len(chunks) |->
            IF c > 1 THEN Strip(JoinLines(chunks[c])) \o Continuation
            ELSE Strip(JoinLines(chunks[c]))]

\* repository names: none, one character
BlockNames == {<<>>, <<"r">>}

\* task lines: none, a blank, bullets that fit (one with a blank at its end), a
\* bullet and a plain line too long for a chunk
BlockLines ==
    {<<>>, <<" ">>, <<"-", " ", "a">>, <<"-", " ", "b", " ">>,
     DashSp \o Rep("c", 8), Rep("d", 26)}

\* limits below the heading, for one short bullet, for two, and one that takes
\* the heading, the continuation marker and a long bullet
BlockLimits == {10, 20, 24, 42}

IdleSplit ==
    [pc |-> "idle", repo_name |-> <<>>, task_lines |-> <<>>, limit |-> 0,
     chunks |-> <<>>, out |-> <<>>]

SplitCall ==
    /\ sb.pc = "idle"
    /\ \E name \in BlockNames, lines \in SeqsUpTo(BlockLines, MaxBlockLines),
          limit \in BlockLimits :
        sb' = [pc |-> "returned", repo_name |-> name, task_lines |-> lines,
               limit |-> limit, chunks |-> SplitChunks(name, lines, limit),
               out |-> SplitRepoBlock(name, lines, limit)]
    /\ UNCHANGED <<pipelineVars, vw, dc, rd, cr, ml, su>>

\* the caller is done with the chunks
SplitDone ==
    /\ sb.pc = "returned"
    /\ sb' = IdleSplit
    /\ UNCHANGED <<pipelineVars, vw, dc, rd, cr, ml, su>>

(* ------------------------- summarize_repo_once ------------------------ *)
MaxPromptCommits == 3
MaxTokenBudget == 700
MaxBlanks == 1

\* k letters, j blanks, then one more letter if tail
LongMessage(k, j, tail) ==
    [i \in 1..(k + j) |-> IF i <= k THEN "a" ELSE " "]
        \o (IF tail THEN <<"b">> ELSE <<>>)

\* commit messages around the shortest length a message is cut to, some with
\* blanks where the cut falls and blanks around them
LongMessages ==
    {LongMessage(k, j, tail) : k \in 38..45, j \in 0..MaxBlanks, tail \in BOOLEAN}
        \cup {<<" ">> \o LongMessage(41, 0, FALSE) \o <<" ">>}

\* the budgets around the overhead of a prompt, none at all, and the default
TokenBudgets == {0, DefaultTokenBudget} \cup 400..MaxTokenBudget

IdleOnce ==
    [pc |-> "idle", commit_count |-> 0, token_budget |-> 0, max_len |-> 0,
     commits |-> <<>>, prompt |-> NoPrompt]

\* summarize_repo_once on n commits of one message each
SummarizeRepoOnceCall ==
    /\ ml.pc = "idle"
    /\ \E n \in 0..MaxPromptCommits, b \in TokenBudgets, msg \in LongMessages :
        LET commits == [i \in 1..n |-> Commit(History[((i - 1) % Len(History)) + 1], msg)]
        IN  ml' = [pc |-> "returned", commit_count |-> n, token_budget |-> b,
                   max_len |-> ComputeMaxMessageLen(Len(commits), b),
                   commits |-> commits,
                   prompt |-> SummarizeRepoOnce(DirectRepo, commits, b)]
    /\ UNCHANGED <<pipelineVars, vw, dc, rd, cr, sb, su>>

\* the caller is done with the prompt
SummarizeRepoOnceDone ==
    /\ ml.pc = "returned"
    /\ ml' = IdleOnce
    /\ UNCHANGED <<pipelineVars, vw, dc, rd, cr, sb, su>>

vars == <<repositories, commitsTbl, achievements, dbConfigured, eng, obs, running,
          inflight, background, maxRetriesArg, callNo, prev, req, task, vw, dc, rd, cr, ml, sb, su>>

Init ==
    /\ repositories = {}
    /\ commitsTbl = {}
    /\ achievements = <<>>
    /\ dbConfigured \in BOOLEAN
    /\ maxRetriesArg \in 0..MaxRetriesArg
    /\ eng = [t \in Tasks |-> IdleEng]
    /\ obs = [t \in Tasks |-> IdleObs]
    /\ running = 0
    /\ inflight = 0
    /\ background = {}
    /\ callNo = 0
    /\ prev = NoPrev
    /\ req = IdleReq
    /\ task = [t \in Tasks |-> IdleTask]
    /\ vw = IdleValidate
    /\ dc = IdleSend
    /\ rd = IdleDaily
    /\ cr = IdleCron
    /\ ml = IdleOnce
    /\ sb = IdleSplit
    /\ su = IdleRuns

Next ==
    \/ Call
    \/ PrepareOk(Caller)
    \/ PrepareFail(Caller)
    \/ BackendStart(Caller)
    \/ BackendRaise(Caller)
    \/ Timeout(Caller)
    \/ JoinOver(Caller)
    \/ Wake(Caller)
    \/ BackendReturn(Caller)
    \/ WriteOk(Caller)
    \/ WriteFail(Caller)
    \/ BackgroundWrite

Spec == Init /\ [][Next]_vars

\* the store as an earlier request for one commit of r1 left it
SeedCommits == <<Commit("h1", Strip(MsgCi))>>

SeedStore ==
    LET sums == [i \in 1..Len(SeedCommits) |-> PayloadChecksum("r1", SeedCommits[i])]
        st == PrepareRepoCommits({}, <<>>, "r1", SeedCommits, sums)
    IN  [repositories |-> {"r1"}, tbl |-> st.tbl,
         ach |-> MarkCompleted(st.ach, st.ids[1], ExtractBullets(<<LineCanon>>)[1])]

EmptyStore == [repositories |-> {}, tbl |-> {}, ach |-> <<>>]

InitWindow ==
    /\ \E st \in {EmptyStore, SeedStore} :
        /\ repositories = st.repositories
        /\ commitsTbl = st.tbl
        /\ achievements = st.ach
    /\ dbConfigured \in BOOLEAN
    /\ maxRetriesArg = DefaultMaxRetries
    /\ eng = [t \in Tasks |-> IdleEng]
    /\ obs = [t \in Tasks |-> IdleObs]
    /\ running = 0
    /\ inflight = 0
    /\ background = {}
    /\ callNo = 0
    /\ prev = NoPrev
    /\ req = IdleReq
    /\ task = [t \in Tasks |-> IdleTask]
    /\ vw = IdleValidate
    /\ dc = IdleSend
    /\ rd = IdleDaily
    /\ cr = IdleCron
    /\ ml = IdleOnce
    /\ sb = IdleSplit
    /\ su = IdleRuns

NextWindow ==
    \/ Collect
    \/ \E t \in Tasks :
        \/ TaskStart(t)
        \/ Acquire(t)
        \/ PrepareOk(t)
        \/ PrepareFail(t)
        \/ BackendStart(t)
        \/ BackendRaise(t)
        \/ Timeout(t)
        \/ JoinOver(t)
        \/ Wake(t)
        \/ BackendReturn(t)
        \/ WriteOk(t)
        \/ WriteFail(t)
        \/ ProcessRepoEnd(t)
    \/ GatherReturn
    \/ GatherRaise
    \/ BackgroundWrite

SpecWindow == InitWindow /\ [][NextWindow]_vars

\* a step of a repository task: the event loop runs every task that is ready, and
\* every backend and store call is taken to end, one way or another
TaskStep ==
    \E t \in Tasks :
        \/ Wake(t)
        \/ Timeout(t)
        \/ JoinOver(t)
        \/ BackendRaise(t)
        \/ BackendReturn(t)
        \/ WriteFail(t)
        \/ WriteOk(t)
        \/ PrepareFail(t)
        \/ PrepareOk(t)
        \/ Acquire(t)
        \/ TaskStart(t)
        \/ BackendStart(t)
        \/ ProcessRepoEnd(t)

\* a window request whose gate is contended: one permit (ACHIEVEMENT_MAX_CONCURRENCY=1)
\* for the tasks of repositories with distinct names, a client loaded
GateRequest ==
    /\ req.pc = "gather"
    /\ req.client
    /\ req.max_concurrency = 1
    /\ \A i \in 1..Len(req.repositories) : req.repositories[i].name = RepoNames[i]

CollectGate == Collect /\ GateRequest'

NextGate ==
    \/ CollectGate
    \/ TaskStep
    \/ GatherReturn
    \/ GatherRaise
    \/ BackgroundWrite

SpecGate == InitWindow /\ [][NextGate]_vars

\* the event loop runs every task that is ready, and every backend and store
\* call terminates (by returning, raising or timing out)
SpecGateLive == SpecGate /\ WF_vars(TaskStep)

\* two requests served by one event loop whose windows hold the same commit of the
\* same repository, read before and after its message was rewritten
OverlapCommits ==
    {<<Commit("h1", Strip(m))>> : m \in Messages}
        \cup {<<Commit("h1", Strip(MsgCi)), Commit("h2", Strip(MsgCi))>>}

\* the engine call of request t
OverlapCall(t) ==
    /\ running = 0
    /\ eng[t].pc = "idle"
    /\ callNo < MaxCalls
    /\ callNo' = callNo + 1
    /\ \E commits \in OverlapCommits :
        Step(t, Enter("request", DirectRepo, commits, maxRetriesArg, TRUE), IdleObs)
    /\ UNCHANGED <<storeVars, envVars, inflight, background, prev, winVars>>

NextOverlap ==
    \/ \E t \in Tasks :
        \/ OverlapCall(t)
        \/ PrepareOk(t)
        \/ PrepareFail(t)
        \/ BackendStart(t)
        \/ BackendRaise(t)
        \/ Timeout(t)
        \/ JoinOver(t)
        \/ Wake(t)
        \/ BackendReturn(t)
        \/ WriteOk(t)
        \/ WriteFail(t)
    \/ BackgroundWrite

SpecOverlap == Init /\ [][NextOverlap]_vars

\* one call with use_cache=False and up to MaxBackoffRetries retries
RetryCommits ==
    {<<Commit("h1", MsgCi)>>, <<Commit("h1", MsgCi), Commit("h2", MsgCi)>>}

RetryCall ==
    /\ running = 0
    /\ eng[Caller].pc = "idle"
    /\ callNo = 0
    /\ callNo' = 1
    /\ \E commits \in RetryCommits, r \in 0..MaxBackoffRetries :
        Step(Caller, Enter("direct", DirectRepo, commits, r, FALSE), IdleObs)
    /\ UNCHANGED <<storeVars, envVars, inflight, background, prev, winVars>>

NextRetry ==
    \/ RetryCall
    \/ BackendStart(Caller)
    \/ BackendRaise(Caller)
    \/ Timeout(Caller)
    \/ JoinOver(Caller)
    \/ Wake(Caller)
    \/ BackendReturn(Caller)

InitRetry == Init /\ ~dbConfigured /\ maxRetriesArg = 0

SpecRetry == InitRetry /\ [][NextRetry]_vars

\* the steps of the call itself and the timer of fut.result happen in the end; no
\* such thing is known of the backend
SpecRetryLive ==
    /\ SpecRetry
    /\ WF_vars(BackendStart(Caller))
    /\ WF_vars(Timeout(Caller))
    /\ WF_vars(Wake(Caller))

\* install and remove calls on one crontab
NextCron ==
    \/ CronStart
    \/ CronInstall
    \/ CronRemove

SpecCron == Init /\ [][NextCron]_vars

\* cron runs and startup runs, one after the other and side by side
NextRuns ==
    \/ RunsStart
    \/ \E p \in Runs : RunStep(p)

SpecRuns == Init /\ [][NextRuns]_vars

\* calls of split_repo_block alone
NextSplit ==
    \/ SplitCall
    \/ SplitDone

SpecSplit == Init /\ [][NextSplit]_vars

\* calls of summarize_repo_once alone
NextOnce ==
    \/ SummarizeRepoOnceCall
    \/ SummarizeRepoOnceDone

SpecOnce == Init /\ [][NextOnce]_vars

\* runs of run_daily.main alone
NextDaily ==
    \/ DailyStart
    \/ DailyGenerate
    \/ DailyNotify
    \/ DailyMonthly

SpecDaily == Init /\ [][NextDaily]_vars

\* calls of send_message_or_file alone
NextDiscord ==
    \/ SendCall
    \/ SendAttempt
    \/ SendSleepOver

SpecDiscord == Init /\ [][NextDiscord]_vars

\* calls of validate_window alone
NextValidate ==
    \/ ValidateCall
    \/ ValidateDone

SpecValidate == Init /\ [][NextValidate]_vars

(* ================================ claims ============================== *)
\* the direct caller's call and what was seen of it
Direct == eng[Caller]
Seen == obs[Caller]

ListingHashes(prompt) == [k \in 1..Len(prompt.listing) |-> prompt.listing[k].hash]
CommitHashes(commits) == [k \in 1..Len(commits) |-> commits[k].hash]

\* the store holds a completed record of the commit under this checksum
HasCompleted(cid, cs) ==
    \E r \in 1..Len(achievements) :
        /\ achievements[r].commit = cid
        /\ achievements[r].checksum = cs
        /\ achievements[r].status = "completed"

\* the hashes of the commits of the call without a completed record, in input order
RECURSIVE NotCachedFrom(_, _)
NotCachedFrom(e, i) ==
    IF i > Len(e.commits) THEN <<>>
    ELSE IF HasCompleted(<<e.repo_name, e.commits[i].hash>>,
                         PayloadChecksum(e.repo_name, e.commits[i]))
    THEN NotCachedFrom(e, i + 1)
    ELSE <<e.commits[i].hash>> \o NotCachedFrom(e, i + 1)

\* C2: after a run that returned ok=true against a working store, a second run on
\* the same commits makes no backend call and returns ok=true with the same bullets.
C2_Idempotent ==
    (/\ prev.good
     /\ Direct.pc = "returned"
     /\ Seen.prepare = "ok"
     /\ ~Seen.write_failed
     /\ Direct.commits = prev.commits
     /\ Len(Direct.commits) > 0)
    => (/\ Seen.calls = 0
        /\ Direct.res.ok
        /\ Direct.res.bullet_lines = prev.bullet_lines)

\* C3: the prompt of every backend call lists exactly the commits without a
\* completed record, in input order; a result with ok=true has one bullet per input
\* commit, the cached bullet at a cached position and the fresh bullets, in response
\* order, at the others.
C3_TargetedRegeneration ==
    /\ (Direct.pc = "in_call" /\ Seen.prepare = "ok")
        => ListingHashes(Seen.prompt) = NotCachedFrom(Direct, 1)
    /\ (Direct.pc = "returned" /\ Seen.prepare = "ok" /\ Direct.res.ok)
        => LET missing == MissingIndexes(Direct.cached_bullets)
               bullets == Direct.res.bullet_lines
           IN  /\ Len(bullets) = Len(Direct.commits)
               /\ \A i \in 1..Len(Direct.commits) :
                    Direct.cached_bullets[i] # None
                        => bullets[i] = Direct.cached_bullets[i]
               /\ Select(bullets, missing) = Upto(Seen.valid, Len(missing))

\* a run that merged: a backend call was made for some commits, others were cached
C3_Witness ==
    /\ Direct.pc = "returned"
    /\ Seen.prepare = "ok"
    /\ Direct.res.ok
    /\ Seen.calls >= 1
    /\ \E i \in 1..Len(Direct.commits) : Direct.cached_bullets[i] # None
    /\ \E i \in 1..Len(Direct.commits) : Direct.cached_bullets[i] = None

\* C4: a bullet prepare_repo_commits reports as cached is the stored bullet of a
\* completed record of that very commit whose checksum is the one just computed.
C4_NoStaleHit ==
    (Seen.prepare = "ok" /\ Seen.calls = 0)
    => \A i \in 1..Len(Direct.cached_bullets) :
        Direct.cached_bullets[i] # None
        => \E r \in 1..Len(achievements) :
            /\ achievements[r].commit = <<Direct.repo_name, Direct.commits[i].hash>>
            /\ achievements[r].checksum =
                   PayloadChecksum(Direct.repo_name, Direct.commits[i])
            /\ achievements[r].status = "completed"
            /\ Strip(achievements[r].bullet) = Direct.cached_bullets[i]

\* a commit whose content changed: the bullet stored under the old checksum is there
\* and is not reported
C4_Witness ==
    /\ Seen.prepare = "ok"
    /\ Seen.calls = 0
    /\ \E i \in 1..Len(Direct.cached_bullets) :
        /\ Direct.cached_bullets[i] = None
        /\ \E r \in 1..Len(achievements) :
            /\ achievements[r].commit = <<Direct.repo_name, Direct.commits[i].hash>>
            /\ achievements[r].checksum #
                   PayloadChecksum(Direct.repo_name, Direct.commits[i])
            /\ Strip(achievements[r].bullet) # <<>>

\* C5: when every attempt of a call came back with too few valid bullets, the call
\* returns ok=false, no bullets, the coverage error and retries = max_retries.
C5_CoverageFailure ==
    (Seen.attempts = {"short"} /\ Direct.pc \in {"returned", "raised"})
    => (/\ Direct.pc = "returned"
        /\ ~Direct.res.ok
        /\ Direct.res.bullet_lines = <<>>
        /\ Direct.res.error.text = "invalid bullet coverage"
        /\ Direct.res.error.bullets < Direct.res.error.commits
        /\ Direct.res.retries = Direct.max_retries)

C7_NeverRaises ==
    /\ Direct.pc # "raised"
    /\ (Direct.pc = "returned" /\ Seen.calls > 0 /\ "ok" \notin Seen.attempts)
        => (~Direct.res.ok /\ Direct.res.error.text # "")

\* C8: when prepare_repo_commits fails nothing is taken as cached, every backend
\* call lists every input commit, no mark_completed or mark_failed is issued, and
\* the call returns, after a backend call, instead of raising.
C8_PrepareFailure ==
    Seen.prepare = "failed"
    => (/\ \A i \in 1..Len(Direct.commits) : Direct.cached_bullets[i] = None
        /\ Seen.calls > 0 => ListingHashes(Seen.prompt) = CommitHashes(Direct.commits)
        /\ Seen.issued = {}
        /\ Direct.writes = {}
        /\ Direct.pc \notin {"write_back", "raised"}
        /\ Direct.pc = "returned" => Seen.calls >= 1)

\* a call whose prepare failed returned bullets for two commits
C8_Witness ==
    /\ Seen.prepare = "failed"
    /\ Direct.pc = "returned"
    /\ Direct.res.ok
    /\ Len(Direct.commits) = 2
    /\ Len(Direct.res.bullet_lines) = 2

\* an entry of the result against the repository it stands for
ItemCounts(it) ==
    /\ Len(it.bullets) = it.commits_count
    /\ \E i \in 1..Len(req.repositories) :
        /\ req.repositories[i].name = it.repo_name
        /\ Len(req.repositories[i].detailed_commits) = it.commits_count

\* C1: every repository entry of the result of generate_achievement_window has as
\* many bullets as its commitsCount, which is the number of commits collected for
\* that repository, whichever path produced the entry.
C1_BulletsPerCommit ==
    /\ \A t \in Tasks : task[t].item # NoItem => ItemCounts(task[t].item)
    /\ req.pc = "returned" => \A k \in 1..Len(req.out) : ItemCounts(req.out[k])

\* a returned document with a backend-made entry for two commits
C1_Witness ==
    /\ req.pc = "returned"
    /\ \E k \in 1..Len(req.out) :
        req.out[k].source = "llm" /\ req.out[k].commits_count = 2

\* C9: a failing write-back does not fail the request: generate_achievement_window
\* raises for nothing but an invalid window or a repository that fails the
\* integrity check.
C9_WriteBackFailureSurvives ==
    req.pc = "raised"
    => \/ req.err # ""
       \/ \E i \in 1..Len(req.repositories) : ~IntegrityOk(req.repositories[i])

InGateCount == Cardinality({t \in Tasks : task[t].pc = "in_gate"})

\* C10: the tasks inside the gate, and so the backend calls in flight, never exceed
\* max_concurrency, which is at least 1.
C10_GateBound ==
    /\ InGateCount <= req.max_concurrency
    /\ inflight <= req.max_concurrency
    /\ inflight <= InGateCount
    /\ req.sem >= 0
    /\ req.pc = "gather" => req.max_concurrency >= 1

\* the gate is full and a task waits for it
C10_Witness ==
    /\ InGateCount = req.max_concurrency
    /\ \E t \in Tasks : task[t].pc = "wait_gate"


\* C12: validate_window accepts a window exactly when both timestamps parse, since
\* is earlier than until, until - since is at most 365 * 24 * 60 minutes, and
\* neither timestamp is later than the clock.
C12_AcceptsExactly ==
    vw.pc = "returned"
    => ((vw.err = "")
        <=> (/\ vw.since.ok
             /\ vw.until.ok
             /\ vw.since.minute < vw.until.minute
             /\ vw.until.minute - vw.since.minute <= MaxDays * MinutesPerDay
             /\ vw.since.minute <= vw.now
             /\ vw.until.minute <= vw.now))


\* the three counts of a collected repository are not all equal
CountsDiffer(repo) ==
    \/ repo.commit_count_expected # repo.commit_count
    \/ repo.commit_count # Len(repo.detailed_commits)
    \/ repo.commit_count_expected # Len(repo.detailed_commits)

\* nothing of the request went past its first steps: no task, no engine call, no
\* backend call, no document
NothingStarted ==
    /\ req.pc = "raised"
    /\ req.out = <<>>
    /\ "tasks" \notin req.did
    /\ \A t \in Tasks : task[t] = IdleTask /\ eng[t].pc = "idle"
    /\ inflight = 0

\* C11: if the counts of any collected repository are not all equal the request
\* raises, whatever the other repositories look like: no client is loaded, no task
\* runs, so no backend call and no store operation is made, and no document is
\* returned.
C11_IntegrityAborts ==
    (\E i \in 1..Len(req.repositories) : CountsDiffer(req.repositories[i]))
    => (NothingStarted /\ "load_client" \notin req.did)

\* one inconsistent repository next to a consistent one that has commits
C11_Witness ==
    /\ req.pc = "raised"
    /\ \E i, j \in 1..Len(req.repositories) :
        /\ CountsDiffer(req.repositories[i])
        /\ req.repositories[i].commit_count # Len(req.repositories[i].detailed_commits)
        /\ ~CountsDiffer(req.repositories[j])
        /\ Len(req.repositories[j].detailed_commits) > 0

\* C13: when the window is invalid the request raises the validation error at
\* once: the Commit Source is not invoked, no client is loaded, no task runs.
C13_ValidationAborts ==
    req.err # ""
    => (/\ NothingStarted
        /\ req.did = {"validate"}
        /\ req.repositories = <<>>
        /\ ~req.client)

\* a request refused for the size of its window
C13_Witness ==
    /\ req.pc = "raised"
    /\ req.err = ErrTooLarge

RECURSIVE TotalCommits(_)
TotalCommits(i) ==
    IF i > Len(req.repositories) THEN 0
    ELSE Len(req.repositories[i].detailed_commits) + TotalCommits(i + 1)

RECURSIVE TotalBullets(_)
TotalBullets(k) ==
    IF k > Len(req.out) THEN 0 ELSE Len(req.out[k].bullets) + TotalBullets(k + 1)

\* C14: whenever the request returns, the commits collected over all repositories
\* are as many as the bullets of the returned repositories.
C14_TotalsAgree ==
    req.pc = "returned" => TotalCommits(1) = TotalBullets(1)


\* C15: when the engine fails for a repository of which some commits have a cached
\* bullet, the entry the orchestrator builds for it carries the cached bullet at
\* every cached position.
C15_CachedKeptOnFallback ==
    [][\A t \in Tasks :
        (/\ task[t].pc = "in_gate"
         /\ task'[t].pc = "done"
         /\ task'[t].item.source = "non_ai_fallback")
        => \A i \in 1..Len(eng[t].cached_bullets) :
            Strip(eng[t].cached_bullets[i]) # <<>>
            => /\ i <= Len(task'[t].item.bullets)
               /\ task'[t].item.bullets[i] = Strip(eng[t].cached_bullets[i])]_vars


\* C16: over any sequence of runs the status of a record changes only along
\* pending -> completed, pending -> failed, pending -> invalidated and
\* completed -> invalidated.
C16_StatusTransitions ==
    [][\A i \in 1..Len(achievements) :
        \/ achievements'[i].status = achievements[i].status
        \/ <<achievements[i].status, achievements'[i].status>>
             \in {<<"pending", "completed">>, <<"pending", "failed">>,
                  <<"pending", "invalidated">>, <<"completed", "invalidated">>}]_vars


\* the step in which task t's prepare_repo_commits ends
PrepareEnds(t) == eng[t].pc = "prepare" /\ eng'[t].pc # "prepare"

\* every commit of the batch of task t has its commit row and its record under
\* the current checksum, every other record of it is invalidated
BatchProcessed(t, names, tbl, ach) ==
    /\ eng[t].repo_name \in names
    /\ \A i \in 1..Len(eng[t].commits) :
        LET c == eng[t].commits[i]
            cid == <<eng[t].repo_name, c.hash>>
        IN  /\ \E r \in tbl : r.repo = eng[t].repo_name /\ r.hash = c.hash
            /\ \E j \in 1..Len(ach) :
                ach[j].commit = cid /\ ach[j].checksum = eng[t].payload_checksums[i]
            /\ \A j \in 1..Len(ach) :
                (ach[j].commit = cid /\ ach[j].checksum # eng[t].payload_checksums[i])
                => ach[j].status = "invalidated"

\* C18: prepare_repo_commits is atomic. When it fails (the call goes on with no
\* record id) the tables are as they were before it; when it succeeds every commit
\* of the batch has been processed. No step shows a batch processed in part.
C18_PrepareAtomic ==
    [][\A t \in Tasks :
        PrepareEnds(t)
        => IF \A i \in 1..Len(eng'[t].achievement_ids) : eng'[t].achievement_ids[i] = 0
           THEN UNCHANGED storeVars
           ELSE BatchProcessed(t, repositories', commitsTbl', achievements')]_vars

\* a prepare over two commits has failed and the tables hold nothing of the batch
C18_Witness ==
    \E t \in Tasks :
        /\ task[t].pc = "in_gate"
        /\ eng[t].store
        /\ eng[t].pc = "attempt"
        /\ Len(eng[t].commits) = 2
        /\ \A i \in 1..2 : eng[t].achievement_ids[i] = 0
        /\ eng[t].repo_name \notin repositories
        /\ \A r \in commitsTbl : r.repo # eng[t].repo_name


\* C17: whatever prepare_repo_commits, mark_completed and mark_failed operations
\* were made, those of overlapping requests included, each commit has at most one
\* record whose status is not invalidated.
C17_OneLiveRecord ==
    \A i, j \in 1..Len(achievements) :
        (/\ achievements[i].commit = achievements[j].commit
         /\ achievements[i].status # "invalidated"
         /\ achievements[j].status # "invalidated")
        => i = j


Is2xx(o) == o.kind = "status" /\ 200 <= o.status /\ o.status < 300

\* C19: a call of send_message_or_file with retry_once that reaches the loop makes
\* at most two attempts; after a first attempt that ended with a 429, another
\* status outside 2xx or an exception it sleeps once and makes exactly one more;
\* retry_count is the number of attempts minus one and ok is true exactly when
\* the last attempt ended with a 2xx status.
C19_RetryOnce ==
    (dc.creds /\ dc.retry_once)
    => /\ Len(dc.log) <= 2
       /\ Len(dc.slept) <= 1
       /\ dc.pc = "returned"
          => /\ Len(dc.log) >= 1
             /\ Len(dc.log) = (IF Is2xx(dc.log[1]) THEN 1 ELSE 2)
             /\ Len(dc.slept) = Len(dc.log) - 1
             /\ dc.result.retry_count = Len(dc.log) - 1
             /\ dc.result.ok <=> Is2xx(dc.log[Len(dc.log)])

\* a rate-limited first attempt, then a successful one
C19_Witness ==
    /\ dc.pc = "returned"
    /\ dc.retry_once
    /\ Len(dc.log) = 2
    /\ dc.log[1].status = 429
    /\ Is2xx(dc.log[2])
    /\ dc.result.ok
    /\ dc.result.retry_count = 1


\* C20: a run of main on a Saturday or a Sunday launches no generation
\* subprocess, sends nothing and leaves the stored last-execution date as it was.
C20_WeekendSilent ==
    (rd.pc # "idle" /\ rd.today.weekday \in {5, 6})
    => /\ rd.pc = "returned"
       /\ rd.launched = <<>>
       /\ rd.sent = 0
       /\ rd.last = rd.last0

\* a Saturday run after 06:00 with no report for yesterday yet
C20_Witness ==
    /\ rd.pc = "returned"
    /\ rd.today.weekday = 5
    /\ ~rd.early
    /\ rd.last0 # "report_date"
    /\ ~rd.json


\* what the last install / remove call had to leave alone, and the bound on
\* marker lines
CronQuiet ==
    /\ (cr.op = "install" /\ \E i \in 1..Len(cr.before) : HasMarker(cr.before[i]))
       => (~cr.wrote /\ cr.lines = cr.before)
    /\ (cr.op = "remove" /\ \A i \in 1..Len(cr.before) : ~HasMarker(cr.before[i]))
       => (~cr.wrote /\ cr.lines = cr.before)
    /\ Cardinality({i \in 1..Len(cr.lines) : HasMarker(cr.lines[i])}) <= 1

\* C21 as stated: install writes nothing when a marker line exists, remove writes
\* nothing when none exists, and after any sequence of calls the crontab holds at
\* most one marker line and every other line as it was.
C21_OtherLinesKept ==
    /\ CronQuiet
    /\ WithoutMarker(cr.lines) = WithoutMarker(cr.lines0)

\* C21 amended: the same, with the other lines kept in order up to the blanks at
\* their end, empty lines aside.
C21_OtherLinesKeptUpToBlanks ==
    /\ CronQuiet
    /\ CronClean(WithoutMarker(cr.lines)) = CronClean(WithoutMarker(cr.lines0))

\* a second install that found the line of the first, on a crontab with a job
\* that ended in a blank
C21_Witness ==
    /\ cr.calls >= 2
    /\ cr.op = "install"
    /\ ~cr.wrote
    /\ \A i \in 1..Len(cr.lines0) : ~HasMarker(cr.lines0[i])
    /\ \E i \in 1..Len(cr.lines0) : cr.lines0[i] = <<"b", " ">>
    /\ cr.lines[Len(cr.lines)] = CronCommand


\* the attempts of the direct call that ended with an exception or a timeout
\* while a retry was left
RetriedRaises ==
    {j \in 1..Len(Seen.log) :
        /\ Seen.log[j].kind \in {"exception", "timeout"}
        /\ Seen.log[j].retries < Direct.max_retries}

\* C22: transport errors and coverage failures share one retry counter: in any
\* order of the two, one call makes at most max_retries + 1 backend calls, and the
\* retries it returns are the backend calls made minus one.
C22_SharedCounter ==
    /\ Seen.calls <= Direct.max_retries + 1
    /\ (Direct.pc = "returned" /\ Seen.calls >= 1)
       => Direct.res.retries = Seen.calls - 1

\* a call that used up three retries on both kinds of failure
C22_Witness ==
    /\ Direct.pc = "returned"
    /\ Direct.max_retries = 3
    /\ Seen.calls = 4
    /\ \E i, j \in 1..Len(Seen.log) :
        Seen.log[i].kind = "short" /\ Seen.log[j].kind = "exception" /\ i < j

\* C23: after a timeout or a transport error with a retry left the call sleeps
\* once, for min(4000, 500 * 2^k) ms where k is the retries made so far, before
\* the next backend call; with no retry left it returns ok=false with the text of
\* the error and does not sleep.
C23_TransportBackoff ==
    /\ Len(Seen.sleeps) = Cardinality(RetriedRaises)
    /\ \A j \in RetriedRaises :
        LET k == Seen.log[j].retries
            wait == IF 500 * (2 ^ k) <= 4000 THEN 500 * (2 ^ k) ELSE 4000
        IN  Seen.sleeps[Cardinality({i \in RetriedRaises : i <= j})] = wait
    /\ Direct.pc = "sleep" => Len(Seen.log) \in RetriedRaises
    /\ (/\ Direct.pc = "returned"
        /\ Seen.log # <<>>
        /\ Seen.log[Len(Seen.log)].kind \in {"exception", "timeout"})
       => LET last == Seen.log[Len(Seen.log)]
          IN  /\ last.retries >= Direct.max_retries
              /\ ~Direct.res.ok
              /\ Direct.res.error = (IF last.err.text = "" THEN DefaultErr ELSE last.err)

\* five transport failures with growing waits, then the sixth ends the call
C23_Witness ==
    /\ Direct.pc = "returned"
    /\ ~Direct.res.ok
    /\ Seen.sleeps = <<500, 1000, 2000, 4000, 4000>>
    /\ Direct.res.error = TransportErr

\* C24: a retry after a coverage failure waits as a retry after a transport error
\* does: every backend call after the first comes after one wait of
\* min(4000, 500 * 2^k) ms for each retry made.
C24_CoverageBackoff ==
    Direct.pc = "in_call"
    => /\ Len(Seen.sleeps) = Direct.retries
       /\ \A k \in 1..Len(Seen.sleeps) :
           Seen.sleeps[k] = (IF 500 * (2 ^ (k - 1)) <= 4000 THEN 500 * (2 ^ (k - 1))
                             ELSE 4000)

\* C25: the call always terminates: a backend call that does not answer is given
\* up at its timeout, so the call returns in the end.
C25_Terminates ==
    (Direct.pc = "in_call") ~> (Direct.pc \in {"returned", "raised"})


\* C26: the backend call is a suspension point: a task that waits for its backend
\* call does not hold the event loop, so that another task with a permit can
\* start a backend call of its own meanwhile.
C26_BackendCallSuspends ==
    \A t \in Tasks : eng[t].pc = "in_call" => running # t


\* the step on which the transaction of prepare_repo_commits of the call commits
PrepareCommits ==
    /\ Direct.pc = "prepare"
    /\ eng'[Caller].pc # "prepare"
    /\ obs'[Caller].prepare = "ok"

\* C27: when prepare_repo_commits commits with checksum X for a commit, every
\* record of that commit with another checksum has status invalidated; and no step
\* of the pipeline deletes a record: every id stays the id of the same commit under
\* the same checksum.
C27_InvalidatedNeverDeleted ==
    [][/\ Len(achievements') >= Len(achievements)
       /\ \A r \in 1..Len(achievements) :
            /\ achievements'[r].commit = achievements[r].commit
            /\ achievements'[r].checksum = achievements[r].checksum
       /\ PrepareCommits
            => \A i \in 1..Len(Direct.commits) :
                 \A r \in 1..Len(achievements') :
                    (/\ Direct.commits[i].hash # ""
                     /\ achievements'[r].commit =
                            <<Direct.repo_name, Direct.commits[i].hash>>
                     /\ achievements'[r].checksum # Direct.payload_checksums[i])
                    => achievements'[r].status = "invalidated"]_vars

\* a commit whose content changed after its bullet was stored: the completed record
\* of the old content is invalidated and stays next to the pending one of the new
C27_Witness ==
    /\ Direct.pc = "attempt"
    /\ Seen.prepare = "ok"
    /\ \E r, q \in 1..Len(achievements) :
        /\ r < q
        /\ achievements[r].commit = achievements[q].commit
        /\ achievements[r].status = "invalidated"
        /\ Strip(achievements[r].bullet) # <<>>
        /\ achievements[q].status = "pending"
        /\ \E i \in 1..Len(Direct.commits) :
            /\ achievements[q].commit = <<Direct.repo_name, Direct.commits[i].hash>>
            /\ achievements[q].checksum = Direct.payload_checksums[i]


\* the commits of the call that were not served from the cache, the k-th of them
\* being number k of the batch sent to the backend
Fresh(e) == {i \in 1..Len(e.commits) : Strip(e.cached_bullets[i]) = <<>>}
RankInBatch(e, i) == Cardinality({j \in Fresh(e) : j <= i})

\* C28: write-back touches exactly the missing commits that have a record id: on
\* success one mark_completed for each, with the bullet generated for its position
\* in the batch, on failure one mark_failed for each; nothing is issued for a
\* commit served from the cache, and no record gets two updates in one run.
C28_WriteBackExactlyMissing ==
    Direct.pc \in {"write_back", "returned", "raised"}
    => LET ids == Direct.achievement_ids
           todo == {i \in Fresh(Direct) : ids[i] # 0}
       IN  /\ (Direct.res.ok /\ Seen.calls >= 1)
                => Seen.issued =
                     {[op |-> "completed", aid |-> ids[i],
                       bullet |-> Seen.valid[RankInBatch(Direct, i)]] : i \in todo}
           /\ (Direct.res.ok /\ Seen.calls = 0) => Seen.issued = {}
           /\ ~Direct.res.ok
                => Seen.issued =
                     {[op |-> "failed", aid |-> ids[i], bullet |-> <<>>] : i \in todo}
           /\ Cardinality(Seen.issued) = Cardinality(todo)
                \/ (Seen.calls = 0 /\ Seen.issued = {})
           /\ \A w \in Seen.issued :
                \A i \in 1..Len(Direct.commits) : i \notin Fresh(Direct) => w.aid # ids[i]
           /\ \A w, v \in Seen.issued : w.aid = v.aid => w = v

\* a successful run over a partly cached batch that has updates to write
C28_Witness ==
    /\ Direct.pc = "write_back"
    /\ Direct.res.ok
    /\ Seen.issued # {}
    /\ \E i \in 1..Len(Direct.commits) : i \notin Fresh(Direct)
    /\ \E i \in Fresh(Direct) : Direct.achievement_ids[i] # 0


\* C29: in the result of a run that called the backend, position i holds the
\* cached bullet when commit i was a cache hit and otherwise the k-th fresh bullet,
\* i being the k-th missing commit: cached and fresh bullets stand in input order.
C29_PositionalSplice ==
    (Direct.pc \in {"write_back", "returned", "raised"} /\ "ok" \in Seen.attempts)
    => /\ DOMAIN Direct.res.bullet_lines = 1..Len(Direct.commits)
       /\ \A i \in 1..Len(Direct.commits) :
            Direct.res.bullet_lines[i] =
                IF i \in Fresh(Direct) THEN Seen.valid[RankInBatch(Direct, i)]
                ELSE Direct.cached_bullets[i]

\* a merged result in which a fresh bullet stands before a cached one
C29_Witness ==
    /\ Direct.pc = "returned"
    /\ "ok" \in Seen.attempts
    /\ \E i, j \in 1..Len(Direct.commits) :
        /\ i < j
        /\ i \in Fresh(Direct)
        /\ j \notin Fresh(Direct)
        /\ Direct.res.bullet_lines[i] # Direct.res.bullet_lines[j]


\* the records of a commit under a checksum
RecordsOf(ach, cid, cs) ==
    {r \in 1..Len(ach) : ach[r].commit = cid /\ ach[r].checksum = cs}

\* C30: a record of (commit, current checksum) that exists with a status other
\* than completed is the one prepare_repo_commits hands out, with no cached value
\* and without inserting another; no (commit, checksum) pair ever has two records;
\* and the backend call of that run lists every commit that has no cached value.
C30_UnfinishedRecordReused ==
    /\ [](\A r, q \in 1..Len(achievements) :
            (/\ achievements[r].commit = achievements[q].commit
             /\ achievements[r].checksum = achievements[q].checksum) => r = q)
    /\ [][PrepareCommits
            => \A i \in 1..Len(Direct.commits) :
                 LET cid == <<Direct.repo_name, Direct.commits[i].hash>>
                     cs == Direct.payload_checksums[i]
                 IN  \A r \in RecordsOf(achievements, cid, cs) :
                        (Direct.commits[i].hash # "" /\ achievements[r].status # "completed")
                        => /\ eng'[Caller].achievement_ids[i] = r
                           /\ eng'[Caller].cached_bullets[i] = None
                           /\ RecordsOf(achievements', cid, cs) = {r}
                           /\ eng'[Caller].pc = "attempt"]_vars
    /\ [][(Direct.pc = "attempt" /\ eng'[Caller].pc = "in_call")
            => \A i \in Fresh(Direct) :
                 \E k \in 1..Len(obs'[Caller].prompt.listing) :
                    obs'[Caller].prompt.listing[k].hash = Direct.commits[i].hash]_vars

\* a commit whose earlier run failed is in the batch of the backend call of a later
\* run, under the id of the record that run left behind
C30_Witness ==
    /\ Direct.pc = "in_call"
    /\ Seen.prepare = "ok"
    /\ \E i \in 1..Len(Direct.commits) :
        /\ Direct.achievement_ids[i] # 0
        /\ achievements[Direct.achievement_ids[i]].status = "failed"
        /\ achievements[Direct.achievement_ids[i]].checksum = Direct.payload_checksums[i]
        /\ Direct.cached_bullets[i] = None
        /\ \E k \in 1..Len(Seen.prompt.listing) :
            Seen.prompt.listing[k].hash = Direct.commits[i].hash


\* C31: mark_completed and mark_failed are idempotent and touch one record only:
\* applied twice they leave the status and bullet that one application leaves, and
\* the status and bullet of every other record are as they were.
C31_MarkIdempotentOneRecord ==
    LET ach == achievements
        bullets == {ach[r].bullet : r \in 1..Len(ach)} \cup {<<"-", " ", "n">>}
    IN  \A aid \in 0..(Len(ach) + 1) :
          /\ MarkFailed(MarkFailed(ach, aid), aid) = MarkFailed(ach, aid)
          /\ DOMAIN MarkFailed(ach, aid) = DOMAIN ach
          /\ \A r \in 1..Len(ach) :
                /\ r # aid => MarkFailed(ach, aid)[r] = ach[r]
                /\ r = aid => /\ MarkFailed(ach, aid)[r].status = "failed"
                              /\ MarkFailed(ach, aid)[r].bullet = ach[r].bullet
          /\ \A b \in bullets :
                LET once == MarkCompleted(ach, aid, b)
                IN  /\ MarkCompleted(once, aid, b) = once
                    /\ DOMAIN once = DOMAIN ach
                    /\ \A r \in 1..Len(ach) :
                        /\ r # aid => once[r] = ach[r]
                        /\ r = aid => /\ once[r].status = "completed"
                                      /\ once[r].bullet = b

\* a store in which a write-back completed one record of a commit that has another
\* record, invalidated, with a bullet of its own
C31_Witness ==
    /\ Direct.pc = "returned"
    /\ \E w \in Seen.issued :
        /\ w.op = "completed"
        /\ achievements[w.aid].status = "completed"
        /\ achievements[w.aid].bullet = w.bullet
        /\ \E r \in 1..Len(achievements) :
            /\ r # w.aid
            /\ achievements[r].commit = achievements[w.aid].commit
            /\ achievements[r].status = "invalidated"
            /\ achievements[r].bullet # w.bullet


\* the repository of task t has a name and commits: a task is to make an entry of it
HasEntry(t) == RepoOf(t).name # "" /\ Len(RepoOf(t).detailed_commits) > 0

\* C32: when a per-repository task raises, generate_achievement_window raises: it
\* never returns a result in which the repository of that task, or any repository
\* with a name and commits, is missing.
C32_TaskFailureRaises ==
    /\ (\E t \in Tasks : task[t].pc = "failed") => req.pc \in {"gather", "raised"}
    /\ (req.pc = "returned" /\ "tasks" \in req.did)
        => \A t \in Tasks :
            HasEntry(t) => \E k \in 1..Len(req.out) :
                               /\ req.out[k].repo_name = RepoOf(t).name
                               /\ req.out[k] = task[t].item

\* the request raised for a task that raised, while another task has its entry made
C32_Witness ==
    /\ req.pc = "raised"
    /\ req.err = ""
    /\ \E t, u \in Tasks :
        /\ task[t].pc = "failed"
        /\ HasEntry(t)
        /\ task[u].pc = "done"
        /\ task[u].item # NoItem


\* the request has raised out of its gather
RequestFailed == req.pc = "raised" /\ "tasks" \in req.did

\* C33: once the failure of a task has reached the caller the sibling tasks are
\* cancelled: after the request has failed no task starts a backend call or writes
\* to the store.
C33_SiblingsCancelled ==
    [][RequestFailed
        => \A u \in Tasks :
            /\ ~(eng[u].pc = "attempt" /\ eng'[u].pc = "in_call")
            /\ ~(/\ eng[u].pc \in {"prepare", "write_back"}
                 /\ eng'[u] # eng[u]
                 /\ <<repositories, commitsTbl, achievements>>' #
                        <<repositories, commitsTbl, achievements>>)]_vars


\* the task is inside summarize_repo_async with a store: between its first read of
\* the store and its last write to it
UsesStore(t) ==
    /\ task[t].pc = "in_gate"
    /\ eng[t].store
    /\ eng[t].pc \in {"prepare", "attempt", "in_call", "join", "sleep", "write_back"}

\* the rows of repositories and commits the call reads and writes; the achievement
\* rows are those of its commit rows
RowsOf(e) ==
    {<<"repository", e.repo_name, "">>}
        \cup {<<"commit", e.repo_name, e.commits[i].hash>> : i \in 1..Len(e.commits)}

\* C34: within one window request no two repository tasks that run concurrently
\* read or write the same row of the store, whatever the tracked paths are.
C34_DisjointRows ==
    \A t, u \in Tasks :
        (t # u /\ UsesStore(t) /\ UsesStore(u))
        => RowsOf(eng[t]) \cap RowsOf(eng[u]) = {}


\* C35: every repository task that was created gets through the gate and ends, as
\* long as every backend and store call ends; a task that returns or raises gives
\* its permit back, so that with every task over all max_concurrency permits are
\* free again.
C35_GateLive ==
    /\ []((req.pc # "idle" /\ \A t \in Tasks : TaskOver(t))
            => req.sem = req.max_concurrency)
    /\ \A t \in Tasks :
        (task[t].pc \in {"created", "wait_gate", "in_gate"}) ~> TaskOver(t)

\* a gate of one permit: a task is inside it after the task that raised has left it
C35_Witness ==
    /\ req.max_concurrency = 1
    /\ \E t, u \in Tasks :
        /\ task[t].pc = "failed"
        /\ task[u].pc = "in_gate"


\* the tasks, in the order of the collected repository list, that make an entry
EntryTasks == SelectSeq([t \in 1..NumRepos |-> t], HasEntry)

\* C36: the repositories of a returned result stand in the order of the collected
\* repository list, whatever the order in which the tasks ended: the k-th entry is
\* the entry of the k-th repository that has a name and commits, and a repository
\* without commits has no entry.
C36_ResultInListOrder ==
    (req.pc = "returned" /\ "tasks" \in req.did)
        => /\ Len(req.out) = Len(EntryTasks)
           /\ \A k \in 1..Len(req.out) :
                /\ req.out[k] = task[EntryTasks[k]].item
                /\ req.out[k].repo_name = RepoOf(EntryTasks[k]).name
                /\ req.out[k].commits_count = Len(RepoOf(EntryTasks[k]).detailed_commits)
                /\ req.out[k].commits_count > 0

\* a result of two entries with distinct names whose second task ended first
C36_Witness ==
    /\ req.pc = "returned"
    /\ Len(req.out) = 2
    /\ req.out[1].repo_name # req.out[2].repo_name
    /\ req.finished = <<2, 1>>
    /\ req.client


\* clamp(x, lo, hi)
Clamp(x, lo, hi) == Max(lo, Min(hi, x))

\* C37: for n >= 1 commits and a budget b, _compute_max_message_len returns
\* clamp(max(0, b - 400 - 40 n) div n, 10, 55) * 4, a length between 40 and 220
\* that does not grow when n grows with b fixed, and every commit message of the
\* prompt is at most that long.
C37_MessageLength ==
    (ml.pc = "returned" /\ ml.commit_count >= 1)
        => LET n == ml.commit_count
               b == ml.token_budget
           IN  /\ ml.max_len = Clamp(Max(0, b - 400 - 40 * n) \div n, 10, 55) * 4
               /\ ml.max_len \in 40..220
               /\ \A m \in 1..n : ComputeMaxMessageLen(m, b) >= ml.max_len
               /\ ComputeMaxMessageLen(n + 1, b) <= ml.max_len
               /\ Len(ml.prompt.listing) = n
               /\ \A i \in 1..n :
                    Len(ml.prompt.listing[i].message) <= ml.max_len

\* a length strictly between the two ends of the clamp, smaller than the length for
\* one commit less, and a message of the prompt that was cut to it
C37_Witness ==
    /\ ml.pc = "returned"
    /\ ml.commit_count >= 2
    /\ ml.max_len \in 41..219
    /\ ComputeMaxMessageLen(ml.commit_count - 1, ml.token_budget) > ml.max_len
    /\ \E i \in 1..ml.commit_count :
        /\ Len(Strip(ml.commits[i].message)) > ml.max_len
        /\ Len(ml.prompt.listing[i].message) < Len(Strip(ml.commits[i].message))


\* C38: every chunk split_repo_block returns is at most limit characters long, the
\* continuation chunks counted with their continuation marker.
C38_ChunksWithinLimit ==
    sb.pc = "returned" => \A c \in 1..Len(sb.out) : Len(sb.out[c]) <= sb.limit

\* the lines of a chunk without its heading
BulletLines(c) ==
    IF c # <<>> /\ c[1] = Heading(sb.repo_name) THEN Tail(c) ELSE c

\* the characters of the lines of arr, one line after the other
RECURSIVE ConcatLines(_)
ConcatLines(arr) == IF arr = <<>> THEN <<>> ELSE arr[1] \o ConcatLines(Tail(arr))

\* the bullet lines of the chunks from the c-th on, in chunk order
RECURSIVE BulletLinesFrom(_)
BulletLinesFrom(c) ==
    IF c > Len(sb.chunks) THEN <<>>
    ELSE BulletLines(sb.chunks[c]) \o BulletLinesFrom(c + 1)

\* C39: split_repo_block loses no bullet text: the bullet lines of the chunks, in
\* chunk order and without headings and markers, make up the non-empty input lines
\* in input order, an oversized line as the slices it was cut into.
C39_NoTextLost ==
    sb.pc = "returned"
        => ConcatLines(BulletLinesFrom(1)) = ConcatLines(KeptLines(sb.task_lines))


\* the report date is settled: the state file names it or its daily JSON exists
DateSettled == su.last = "report_date" \/ su.json

\* C40: over runs of run_daily.main and run_on_startup.main, one after the other
\* or side by side, the daily generation succeeds at most once for a report date;
\* no run starts a generation once the date is settled; and the state file is set
\* to the date only when its JSON exists (generated or found).
C40_RunOnce ==
    /\ [](su.generated <= 1)
    /\ [][\A p \in Runs :
            (su.run[p].pc # "collect" /\ su'.run[p].pc = "collect") => ~DateSettled]_vars
    /\ [][(su.pc = "ready" /\ su'.last # su.last)
            => (su'.last = "report_date" /\ su.json)]_vars

====
